---- MODULE Spec2Model ----
(***************************************************************************)
(* Model of the data normalisation pipeline of mvr (src/data.py, driven by *)
(* src/main.py): data_cleansing (forward-fill, numeric normalisation,      *)
(* sort, group, aggregate, gene panel composition) and data_fitting        *)
(* (missing-data resolver with a persisted strategy config).               *)
(*                                                                         *)
(* Cells.  A spreadsheet / DataFrame cell is a record [k, n, s]:           *)
(*   k = "null"  a missing value (NaN / None),                             *)
(*   k = "num"   a number, n counts units of 1/One (fixed point),          *)
(*   k = "str"   a text, s is its sequence of characters.                  *)
(* A table is a sequence of rows, a row a function from column names.      *)
(***************************************************************************)
EXTENDS Integers, Sequences, FiniteSets, TLC

VARIABLES
    pc,                  \* position of the running program
    sheet,               \* data_cleansing: the rows read from the workbook
    percentage_columns,  \* data_cleansing: result of detect_percentage_format
    aggregated,          \* data_cleansing / main: the per-patient table
    row,                 \* combine_gene_info: its argument
    gene_records,        \* combine_gene_info: its result
    config,              \* config.json as it is on disk
    data_fitting_config, \* data_fitting: the strategies it holds in memory
    df,                  \* data_fitting: its table
    df_is_aggregated,    \* data_fitting: df is still the caller's object
    columns_to_check,    \* data_fitting: its argument
    ci,                  \* data_fitting: index of the column being checked
    option,              \* data_fitting: the strategy of the last resolution
    missing_urs,         \* data_fitting: the identifiers reported last
    call,                \* main: which data_fitting call is running
    run,                 \* number of the run of main
    returned,            \* data_fitting: what its last call returned
    headers,             \* data_cleansing: the header cell of every column
    header_metadata,     \* main: the label dictionary it holds
    columns_to_derive,   \* config.json: data.data_derivation.columns
    metadata_lookup,     \* main: result of generate_metadata_mapping
    twin                 \* a second execution of data_fitting, for comparison

cleanVars == <<sheet, percentage_columns, aggregated>>
geneVars  == <<row, gene_records>>
fitVars   == <<config, data_fitting_config, df, df_is_aggregated,
               columns_to_check, ci, option, missing_urs, call, run, returned>>

mainVars  == <<headers, header_metadata, columns_to_derive, metadata_lookup>>

vars == <<pc, cleanVars, geneVars, fitVars, mainVars, twin>>

(***************************************************************************)
(* Bounds of the model.                                                    *)
(***************************************************************************)
MaxRows == 3        \* raw rows of a sheet
MaxList == 3        \* length of a panel list handed to combine_gene_info
MaxPatients == 2    \* patients of a sheet handed to the missing-data resolver
MaxRuns == 2        \* runs of main over the same sheet and config file

(***************************************************************************)
(* Cells.                                                                  *)
(***************************************************************************)
One == 100 * 100    \* fixed-point unit: the number 1

NULL   == [k |-> "null", n |-> 0, s |-> <<>>]
Num(x) == [k |-> "num",  n |-> x, s |-> <<>>]
Str(x) == [k |-> "str",  n |-> 0, s |-> x]

\* pd.isna / Series.isnull on one cell
isna(c) == c.k = "null"

Min(S) == CHOOSE x \in S : \A y \in S : x <= y
Max(S) == CHOOSE x \in S : \A y \in S : x >= y

\* the elements of a finite set of integers in increasing order
RECURSIVE SortedSeq(_)
SortedSeq(S) == IF S = {} THEN <<>> ELSE <<Min(S)>> \o SortedSeq(S \ {Min(S)})

\* df[col] as a list
Column(tbl, col) == [i \in 1..Len(tbl) |-> tbl[i][col]]

(***************************************************************************)
(* Characters and texts.                                                   *)
(***************************************************************************)
Whitespace == {" "}
Digits     == <<"0", "1", "2", "3", "4", "5", "6", "7", "8", "9">>

\* str.lstrip() / str.rstrip() / str.strip() without argument
RECURSIVE lstrip_ws(_)
lstrip_ws(s) ==
    IF s # <<>> /\ Head(s) \in Whitespace THEN lstrip_ws(Tail(s)) ELSE s

RECURSIVE rstrip_ws(_)
rstrip_ws(s) ==
    IF s # <<>> /\ s[Len(s)] \in Whitespace
    THEN rstrip_ws(SubSeq(s, 1, Len(s) - 1)) ELSE s

strip(s) == rstrip_ws(lstrip_ws(s))

DigitValue(ch) == (CHOOSE i \in 1..10 : Digits[i] = ch) - 1
IsDigit(ch)    == \E i \in 1..10 : Digits[i] = ch

\* the decimal numeral of a natural number: str(n) for an int n >= 0
RECURSIVE Numeral(_)
Numeral(n) ==
    IF n < 10 THEN <<Digits[n + 1]>>
    ELSE Numeral(n \div 10) \o <<Digits[(n % 10) + 1]>>

\* value of a text of digits
RECURSIVE DigitsValue(_)
DigitsValue(s) ==
    IF s = <<>> THEN 0
    ELSE 10 * DigitsValue(SubSeq(s, 1, Len(s) - 1)) + DigitValue(s[Len(s)])

\* str(x) of a cell holding a whole number or a text (astype(str), str(gene));
\* a missing value prints as "nan"
str(c) ==
    IF c.k = "str" THEN c.s
    ELSE IF c.k = "null" THEN <<"n", "a", "n">>
    ELSE Numeral(c.n \div One)

\* str.lower()
Upper == <<"A", "B", "C", "D", "E", "F", "G", "H", "I", "J", "K", "L", "M",
           "N", "O", "P", "Q", "R", "S", "T", "U", "V", "W", "X", "Y", "Z">>
Lower == <<"a", "b", "c", "d", "e", "f", "g", "h", "i", "j", "k", "l", "m",
           "n", "o", "p", "q", "r", "s", "t", "u", "v", "w", "x", "y", "z">>

lower_char(ch) ==
    IF \E i \in 1..26 : Upper[i] = ch
    THEN Lower[CHOOSE i \in 1..26 : Upper[i] = ch] ELSE ch

lower(s) == [i \in 1..Len(s) |-> lower_char(s[i])]

(***************************************************************************)
(* Imputation strategies and the config file (data.py 280-290).            *)
(* A strategy is a text; the absent strategy (None) is the empty text.     *)
(***************************************************************************)
drop   == <<"d", "r", "o", "p">>
mean   == <<"m", "e", "a", "n">>
median == <<"m", "e", "d", "i", "a", "n">>
mode   == <<"m", "o", "d", "e">>
zero   == <<"z", "e", "r", "o">>
calc   == <<"c", "a", "l", "c">>

NoOption == <<>>

\* line 280
allowed_options == {drop, mean, median, mode, zero, calc}

\* the columns main hands to data_fitting, main.py 17-18
FittingColumns == {"Dx OS", "Ferritin", "TF Sats", "BM Iron stores"}

\* config.json: whether it has the key "data", and the value of
\* config["data"]["data_fitting"] (a column without entry maps to NoOption)
ConfigFile(has_data, strategies) ==
    [has_data |-> has_data, data_fitting |-> strategies]

NoStrategies == [c \in FittingColumns |-> NoOption]

\* line 287: {"data": {"data_fitting": {}}}
DefaultConfig == ConfigFile(TRUE, NoStrategies)

(***************************************************************************)
(* standardize_numeric_columns (data.py 42-72).                            *)
(***************************************************************************)
\* str.replace("%", "")
RECURSIVE remove_percent(_)
remove_percent(s) ==
    IF s = <<>> THEN <<>>
    ELSE (IF Head(s) = "%" THEN <<>> ELSE <<Head(s)>>) \o remove_percent(Tail(s))

\* pd.to_numeric(errors="coerce") of a text: a numeral is read, anything
\* else becomes NaN
parse_numeric(s) ==
    IF s # <<>> /\ \A i \in 1..Len(s) : IsDigit(s[i])
    THEN Num(DigitsValue(s) * One) ELSE NULL

\* lines 58-59 on one cell: astype(str), drop "%", strip, to_numeric.  A
\* float prints and reads back as itself, NaN prints as "nan" and reads as NaN.
to_numeric(c) ==
    IF c.k = "num" THEN c
    ELSE IF c.k = "null" THEN NULL
    ELSE parse_numeric(strip(remove_percent(c.s)))

\* lines 58-70 with the division applied value by value, to the values
\* above 1 only
standardize_column_large_values_only(tbl, col, is_percentage) ==
    LET conv == [i \in 1..Len(tbl) |-> to_numeric(tbl[i][col])]
        below_one ==
            \E i \in 1..Len(tbl) : conv[i].k = "num" /\ conv[i].n < One
        scaled(c) ==
            IF c.k # "num" THEN c
            ELSE IF is_percentage /\ c.n > One THEN Num(c.n \div 100)
            ELSE IF ~is_percentage /\ below_one THEN Num(c.n * 100)
            ELSE c
    IN  [i \in 1..Len(tbl) |-> scaled(conv[i])]

\* lines 58-70 for one column: the column of df after the conversion
standardize_column(tbl, col, is_percentage) ==
    LET conv == [i \in 1..Len(tbl) |-> to_numeric(tbl[i][col])]
        inconsistent_values ==
            \E i \in 1..Len(tbl) : conv[i].k = "num" /\ conv[i].n > One
        below_one ==
            \E i \in 1..Len(tbl) : conv[i].k = "num" /\ conv[i].n < One
        scaled(c) ==
            IF c.k # "num" THEN c
            ELSE IF is_percentage /\ inconsistent_values THEN Num(c.n \div 100)
            ELSE IF ~is_percentage /\ below_one THEN Num(c.n * 100)
            ELSE c
    IN  [i \in 1..Len(tbl) |-> scaled(conv[i])]

standardize_numeric_columns(tbl, pcols) ==
    [i \in 1..Len(tbl) |->
        [c \in DOMAIN tbl[i] |->
            IF c \in DOMAIN pcols
            THEN standardize_column(tbl, c, pcols[c])[i]
            ELSE tbl[i][c]]]

(***************************************************************************)
(* process_headers (data.py 74-87).                                        *)
(***************************************************************************)
\* an entry of header_metadata: the description text of a header, or the
\* label dictionary of a derived column
Description(s) == [k |-> "str",  s |-> s,    d |-> <<>>]
Labels(d)      == [k |-> "dict", s |-> <<>>, d |-> d]

\* str.lstrip(ch) / str.rstrip(ch) for one character
RECURSIVE lstrip_char(_, _)
lstrip_char(s, ch) ==
    IF s # <<>> /\ Head(s) = ch THEN lstrip_char(Tail(s), ch) ELSE s

RECURSIVE rstrip_char(_, _)
rstrip_char(s, ch) ==
    IF s # <<>> /\ s[Len(s)] = ch
    THEN rstrip_char(SubSeq(s, 1, Len(s) - 1), ch) ELSE s

\* '#' in col_str
has_hash(s) == \E i \in 1..Len(s) : s[i] = "#"

\* col_str.split('#', 1)
split_hash(s) ==
    LET at == Min({i \in 1..Len(s) : s[i] = "#"})
    IN  <<SubSeq(s, 1, at - 1), SubSeq(s, at + 1, Len(s))>>

\* col_str.rsplit('#', 1): the cut at the last '#'
split_hash_last(s) ==
    LET at == Max({i \in 1..Len(s) : s[i] = "#"})
    IN  <<SubSeq(s, 1, at - 1), SubSeq(s, at + 1, Len(s))>>

\* lines 78-86 with the header cut at its last '#'
process_header_cut_at_last_hash(col) ==
    LET col_str == strip(col)
    IN  IF has_hash(col_str)
        THEN [name |-> rstrip_char(lstrip_char(strip(split_hash_last(col_str)[1]), "*"), "?"),
              has_desc |-> TRUE,
              desc |-> strip(split_hash_last(col_str)[2])]
        ELSE [name |-> lstrip_char(col_str, "*"), has_desc |-> FALSE, desc |-> <<>>]

\* lines 78-86 for one header: its name and, with a '#', its description
process_header(col) ==
    LET col_str == strip(col)
    IN  IF has_hash(col_str)
        THEN [name |-> rstrip_char(lstrip_char(strip(split_hash(col_str)[1]), "*"), "?"),
              has_desc |-> TRUE,
              desc |-> strip(split_hash(col_str)[2])]
        ELSE [name |-> lstrip_char(col_str, "*"), has_desc |-> FALSE, desc |-> <<>>]

\* process_headers(columns), lines 74-87: the list of names in the order of
\* the headers, and the dict of descriptions, where a later header writes
\* over an earlier one of the same name (line 84)
process_headers(columns) ==
    LET parsed == [i \in 1..Len(columns) |-> process_header(columns[i])]
        described == {i \in 1..Len(columns) : parsed[i].has_desc}
    IN  [header_names |-> [i \in 1..Len(columns) |-> parsed[i].name],
         descriptions |->
             [nm \in {parsed[i].name : i \in described} |->
                 parsed[Max({i \in described : parsed[i].name = nm})].desc]]

\* the names of the columns of the model as texts
ColumnText ==
    [c \in {"UR", "Gene", "Tier", "Ferritin", "Dx OS", "TF Sats", "VAF% G1",
            "Variant description"} |->
        CASE c = "UR"       -> <<"U", "R">>
          [] c = "Gene"     -> <<"G", "e", "n", "e">>
          [] c = "Tier"     -> <<"T", "i", "e", "r">>
          [] c = "Ferritin" -> <<"F", "e", "r", "r", "i", "t", "i", "n">>
          [] c = "Dx OS"    -> <<"D", "x", " ", "O", "S">>
          [] c = "TF Sats"  -> <<"T", "F", " ", "S", "a", "t", "s">>
          [] c = "VAF% G1"  -> <<"V", "A", "F", "%", " ", "G", "1">>
          [] OTHER          -> <<"V", "a", "r", "i", "a", "n", "t", " ", "d", "e",
                                 "s", "c", "r", "i", "p", "t", "i", "o", "n">>]

\* the column a header names after process_headers
NamedColumn(col) ==
    LET name == process_header(col).name
    IN  CHOOSE c \in DOMAIN ColumnText : ColumnText[c] = name

\* line 153: df.columns = new_columns
rename_columns(tbl, hdrs) ==
    LET new_columns == [x \in DOMAIN hdrs |-> NamedColumn(hdrs[x])]
    IN  [i \in 1..Len(tbl) |->
            [c \in {new_columns[x] : x \in DOMAIN tbl[i]} |->
                tbl[i][CHOOSE x \in DOMAIN tbl[i] : new_columns[x] = c]]]

\* lines 76, 84: the descriptions, by column
descriptions(hdrs) ==
    LET parsed == [x \in DOMAIN hdrs |-> process_header(hdrs[x])]
        name == [x \in DOMAIN hdrs |-> NamedColumn(hdrs[x])]
    IN  [c \in {name[x] : x \in {y \in DOMAIN hdrs : parsed[y].has_desc}} |->
            Description(parsed[CHOOSE x \in DOMAIN hdrs : name[x] = c].desc)]

\* the header row of a sheet with the given columns: the column names as
\* they are, Ferritin marked and described
Ferritin_header ==
    <<"*", "F", "e", "r", "r", "i", "t", "i", "n", " ", "#", " ",
      "1", "=", "l", "o", "w", " ", "2", "=", "h", "i", "g", "h">>

HeaderRow(columns) ==
    [c \in columns |-> IF c = "Ferritin" THEN Ferritin_header ELSE ColumnText[c]]

(***************************************************************************)
(* data_cleansing (data.py 132-180).                                       *)
(***************************************************************************)
gene_columns == {"Gene", "VAF% G1", "Tier", "Variant description"}

\* Series.ffill(): a missing cell takes the last value above it
RECURSIVE ffill(_)
ffill(s) ==
    IF Len(s) <= 1 THEN s
    ELSE LET p == ffill(SubSeq(s, 1, Len(s) - 1))
         IN  Append(p, IF isna(s[Len(s)]) THEN p[Len(p)] ELSE s[Len(s)])

\* the identifier column left as read, as load_and_clean_data of
\* data_cleansing.py does
ffill_UR_omitted(tbl) == tbl

\* line 142: df["UR"] = df["UR"].ffill()
ffill_UR(tbl) ==
    LET filled == ffill(Column(tbl, "UR"))
    IN  [i \in 1..Len(tbl) |-> [tbl[i] EXCEPT !["UR"] = filled[i]]]

Permutations_of(n) ==
    {p \in [1..n -> 1..n] : \A i, j \in 1..n : i # j => p[i] # p[j]}

\* line 157: df.sort_values("UR") sorts with the default kind "quicksort",
\* which is not stable: rows with equal UR may come out in any order.
\* Missing keys are placed last, in their original order.
sort_orders(tbl) ==
    {p \in Permutations_of(Len(tbl)) :
        \A i, j \in 1..Len(tbl) : i < j =>
            LET a == tbl[p[i]]["UR"]
                b == tbl[p[j]]["UR"]
            IN  IF isna(a) THEN isna(b) /\ p[i] < p[j]
                ELSE isna(b) \/ a.n <= b.n}

sort_values(tbl, p) == [i \in 1..Len(tbl) |-> tbl[p[i]]]

\* line 170: x.dropna().iloc[0] if not x.dropna().empty else None
first_non_null(x) ==
    LET present == SelectSeq(x, LAMBDA c : ~isna(c))
    IN  IF present = <<>> THEN NULL ELSE present[1]

\* groupby with dropna=False: the rows without a key form a group of their own
groupby_agg_keep_nan(tbl) ==
    LET keyed   == {j \in 1..Len(tbl) : ~isna(tbl[j]["UR"])}
        keys    == SortedSeq({tbl[i]["UR"].n : i \in keyed})
        urs     == [g \in 1..Len(keys) |-> Num(keys[g])]
                   \o (IF keyed = 1..Len(tbl) THEN <<>> ELSE <<NULL>>)
        group(u) == SelectSeq(tbl, LAMBDA r : r["UR"] = u)
    IN  [g \in 1..Len(urs) |->
            [c \in DOMAIN tbl[1] |->
                IF c = "UR" THEN urs[g]
                ELSE IF c \in gene_columns THEN Column(group(urs[g]), c)
                ELSE first_non_null(Column(group(urs[g]), c))]]

\* lines 160-172: groupby("UR", as_index=False).agg(agg_dict).  Groups come
\* in increasing key order, rows without a key belong to no group, and a
\* group keeps its rows in the order they have in df.
groupby_agg(tbl) ==
    LET keys == SortedSeq({tbl[i]["UR"].n : i \in {j \in 1..Len(tbl) : ~isna(tbl[j]["UR"])}})
        group(k) == SelectSeq(tbl, LAMBDA r : r["UR"] = Num(k))
    IN  [g \in 1..Len(keys) |->
            [c \in DOMAIN tbl[1] |->
                IF c = "UR" THEN Num(keys[g])
                ELSE IF c \in gene_columns THEN Column(group(keys[g]), c)
                ELSE first_non_null(Column(group(keys[g]), c))]]

(***************************************************************************)
(* combine_gene_info (data.py 89-109).                                     *)
(***************************************************************************)
GeneRecord(gene, vaf, tier, var_desc) ==
    [f \in {"name"} \cup (gene_columns \ {"Gene"}) |->
        IF f = "name" THEN gene
        ELSE IF f = "VAF% G1" THEN vaf
        ELSE IF f = "Tier" THEN tier
        ELSE var_desc]

\* the test without its third disjunct: the text "0" is kept as a gene
skip_gene_numeric_only(gene) ==
    \/ isna(gene)
    \/ (gene.k = "num" /\ gene.n = 0)

\* line 101: pd.isna(gene) or gene == 0 or str(gene).strip() == "0"
skip_gene(gene) ==
    \/ isna(gene)
    \/ (gene.k = "num" /\ gene.n = 0)
    \/ strip(str(gene)) = <<"0">>

\* zip stops at the end of the shortest list
zip_length(r) ==
    Min({Len(r["Gene"]), Len(r["VAF% G1"]), Len(r["Tier"]),
         Len(r["Variant description"])})

\* lines 100-108, the loop from index i on
RECURSIVE gene_loop(_, _)
gene_loop(r, i) ==
    IF i > zip_length(r) THEN <<>>
    ELSE (IF skip_gene(r["Gene"][i]) THEN <<>>
          ELSE <<GeneRecord(r["Gene"][i], r["VAF% G1"][i], r["Tier"][i],
                            r["Variant description"][i])>>)
         \o gene_loop(r, i + 1)

combine_gene_info(r) == gene_loop(r, 1)

\* lines 175-176: the Gene column becomes the record list, the other three
\* panel columns are dropped
compose_genes(agg) ==
    [i \in 1..Len(agg) |->
        [c \in DOMAIN agg[i] \ (gene_columns \ {"Gene"}) |->
            IF c = "Gene" THEN combine_gene_info(agg[i]) ELSE agg[i][c]]]

(***************************************************************************)
(* Input sheets of data_cleansing.                                         *)
(***************************************************************************)
BRCA1 == <<"B", "R", "C", "A", "1">>

URValues       == {NULL, Num(One), Num(2 * One)}
GeneValues     == {NULL, Str(BRCA1)}

\* a Ferritin cell is blank or holds a value that identifies its row
FerritinAt(i) == Num(i * One)

\* the panel values of the i-th raw row identify the row
VAFAt(i)  == Num(i * (One \div 10))
TierAt(i) == Num(i * One)
DescAt(i) == Str(<<"d", Digits[i + 1]>>)

RawRow(i, ur, gene, ferritin) ==
    [c \in gene_columns \cup {"UR", "Ferritin"} |->
        IF c = "UR" THEN ur
        ELSE IF c = "Gene" THEN gene
        ELSE IF c = "VAF% G1" THEN VAFAt(i)
        ELSE IF c = "Tier" THEN TierAt(i)
        ELSE IF c = "Variant description" THEN DescAt(i)
        ELSE ferritin]

MkSheet(n, f) ==
    [i \in 1..n |->
        RawRow(i, f[i][1], f[i][2], IF f[i][3] THEN FerritinAt(i) ELSE NULL)]

\* detect_percentage_format (data.py 9-39) only ever records True
PercentageFlags == {[c \in S |-> TRUE] : S \in SUBSET {"Ferritin"}}

\* lines 141-153: the table that is sorted and grouped
prepared(sh, pcols, hdrs) ==
    rename_columns(standardize_numeric_columns(ffill_UR(sh), pcols), hdrs)

\* main is about to read the sheet: its header row, the derivation rules
\* of the config file, no label dictionary yet
MainStart(rules) ==
    /\ headers = HeaderRow(DOMAIN sheet[1])
    /\ header_metadata = <<>>
    /\ columns_to_derive = rules
    /\ metadata_lookup = <<>>

\* no header read, no label dictionary, no derivation rule
MainIdle ==
    /\ headers = <<>>
    /\ header_metadata = <<>>
    /\ columns_to_derive = <<>>
    /\ metadata_lookup = <<>>

\* data_fitting has not been called
FitIdle ==
    /\ data_fitting_config = <<>>
    /\ df = <<>>
    /\ df_is_aggregated = FALSE
    /\ columns_to_check = <<>>
    /\ ci = 0
    /\ option = NoOption
    /\ missing_urs = <<>>
    /\ call = 0
    /\ run = 1
    /\ returned = <<>>
    /\ twin = <<>>

CleanInit ==
    /\ pc = "start"
    /\ \E n \in 1..MaxRows :
          \E f \in [1..n -> URValues \X GeneValues \X BOOLEAN] :
              /\ \E i \in 1..n : ~isna(f[i][1])
              /\ sheet = MkSheet(n, f)
    /\ percentage_columns \in PercentageFlags
    /\ MainStart(<<>>)
    /\ aggregated = <<>>
    /\ row = <<>>
    /\ gene_records = <<>>
    /\ config = DefaultConfig
    /\ FitIdle

\* data_cleansing, lines 140-172
Aggregate ==
    /\ pc = "start"
    /\ \E p \in sort_orders(prepared(sheet, percentage_columns, headers)) :
          aggregated' =
              groupby_agg(sort_values(prepared(sheet, percentage_columns, headers), p))
    /\ header_metadata' = descriptions(headers)
    /\ pc' = "aggregated"
    /\ UNCHANGED <<sheet, percentage_columns, geneVars, fitVars, headers,
                   columns_to_derive, metadata_lookup, twin>>

\* data_cleansing, lines 174-180
Compose ==
    /\ pc = "aggregated"
    /\ aggregated' = compose_genes(aggregated)
    /\ pc' = "cleansed"
    /\ UNCHANGED <<sheet, percentage_columns, geneVars, mainVars, fitVars, twin>>

CleanNext == Aggregate \/ Compose

SpecClean == CleanInit /\ [][CleanNext]_vars

(***************************************************************************)
(* Properties of data_cleansing.                                           *)
(***************************************************************************)
\* the identifier of raw row i: its own UR cell, or for a blank cell the UR
\* of the nearest row above that has one (NULL when there is none)
NearestUR(i) ==
    LET above == {j \in 1..i : ~isna(sheet[j]["UR"])}
    IN  IF above = {} THEN NULL ELSE sheet[Max(above)]["UR"]

Patients  == {NearestUR(i) : i \in 1..Len(sheet)} \ {NULL}
RowsOf(u) == {i \in 1..Len(sheet) : NearestUR(i) = u}

\* the raw rows of patient u in sheet order
RowSeqOf(u) == SortedSeq(RowsOf(u))

AfterAggregate == pc \in {"aggregated", "cleansed"}

\* C1: the aggregated table has exactly one row per distinct patient
\* identifier of the sheet (identifiers taken after forward-fill): as many
\* rows as identifiers, every identifier in a row, none in two rows.
C1_OneRowPerPatient ==
    AfterAggregate =>
        /\ Len(aggregated) = Cardinality(Patients)
        /\ {aggregated[a]["UR"] : a \in 1..Len(aggregated)} = Patients
        /\ \A a, b \in 1..Len(aggregated) :
              aggregated[a]["UR"] = aggregated[b]["UR"] => a = b

\* a patient whose rows are separated by a row of another patient
C1_Witness ==
    /\ pc = "cleansed"
    /\ Len(aggregated) = 2
    /\ \E i, j, k \in 1..Len(sheet) :
          /\ i < j /\ j < k
          /\ NearestUR(i) = NearestUR(k)
          /\ NearestUR(j) # NearestUR(i)
          /\ ~isna(NearestUR(i)) /\ ~isna(NearestUR(j))

\* the values a non-panel column holds when the rows are grouped
Normalised == standardize_numeric_columns(sheet, percentage_columns)

FirstNonNullInSheetOrder(u, c) ==
    LET present == {i \in RowsOf(u) : ~isna(Normalised[i][c])}
    IN  IF present = {} THEN NULL ELSE Normalised[Min(present)][c]

\* C2: for every patient the aggregated value of a non-panel column is the
\* first non-null value of that column among the patient's raw rows in
\* sheet order, and null when all of them are null.
C2_FirstNonNullInSheetOrder ==
    AfterAggregate =>
        \A a \in 1..Len(aggregated) :
            aggregated[a]["Ferritin"] =
                FirstNonNullInSheetOrder(aggregated[a]["UR"], "Ferritin")

\* C4: after sorting and grouping, every panel list of a patient holds the
\* values of the patient's raw rows in sheet order.
C4_PanelListsInSheetOrder ==
    pc = "aggregated" =>
        \A a \in 1..Len(aggregated) : \A c \in gene_columns :
            LET rows == RowSeqOf(aggregated[a]["UR"])
            IN  aggregated[a][c] = [k \in 1..Len(rows) |-> sheet[rows[k]][c]]

\* the raw row a panel entry comes from, read off its Tier value
SourceRow(tier) == CHOOSE i \in 1..Len(sheet) : TierAt(i) = tier

\* C5: every raw row, also one with a blank UR cell, is aggregated into the
\* patient of the nearest row above with a UR; the panel entries of a
\* patient are the cells of exactly its rows, a blank panel cell stays
\* blank, and a non-panel value is never taken from another patient's row.
C5_ForwardFillOfIdentifierOnly ==
    pc = "aggregated" =>
        \A a \in 1..Len(aggregated) :
            LET u == aggregated[a]["UR"]
                tiers == aggregated[a]["Tier"]
            IN  /\ Len(tiers) = Cardinality(RowsOf(u))
                /\ {tiers[k] : k \in 1..Len(tiers)} = {TierAt(i) : i \in RowsOf(u)}
                /\ \A c \in gene_columns :
                      /\ Len(aggregated[a][c]) = Len(tiers)
                      /\ \A k \in 1..Len(tiers) :
                            aggregated[a][c][k] = sheet[SourceRow(tiers[k])][c]
                /\ isna(aggregated[a]["Ferritin"])
                      <=> \A i \in RowsOf(u) : isna(sheet[i]["Ferritin"])
                /\ ~isna(aggregated[a]["Ferritin"]) =>
                      \E i \in RowsOf(u) :
                          aggregated[a]["Ferritin"] = Normalised[i]["Ferritin"]

\* a row with a blank UR and blank data cells below a row that has them
C5_Witness ==
    /\ pc = "aggregated"
    /\ \E i \in 2..Len(sheet) :
          /\ isna(sheet[i]["UR"]) /\ ~isna(sheet[i - 1]["UR"])
          /\ isna(sheet[i]["Gene"]) /\ ~isna(sheet[i - 1]["Gene"])
          /\ isna(sheet[i]["Ferritin"]) /\ ~isna(sheet[i - 1]["Ferritin"])
          /\ \E a \in 1..Len(aggregated) :
                /\ aggregated[a]["UR"] = sheet[i - 1]["UR"]
                /\ \E k \in 1..Len(aggregated[a]["Gene"]) :
                      /\ aggregated[a]["Tier"][k] = TierAt(i)
                      /\ isna(aggregated[a]["Gene"][k])

(***************************************************************************)
(* combine_gene_info on its own: any four panel lists.                     *)
(***************************************************************************)
GeneCells ==
    {NULL, Num(0), Str(<<"0">>), Str(<<" ", "0", " ">>), Str(BRCA1),
     Str(<<"1", "0">>)}

\* the other three lists are prefixes of these
VAFList  == [i \in 1..(MaxList + 1) |->
                Num(CASE i = 1 -> 1000 [] i = 2 -> 3000 [] i = 3 -> 2000
                      [] OTHER -> i * 1000)]
TierList == [i \in 1..(MaxList + 1) |-> Num(i * One)]
DescList == [i \in 1..(MaxList + 1) |->
                Str(CASE i = 1 -> <<"x">> [] i = 2 -> <<"y">> [] i = 3 -> <<"z">>
                      [] OTHER -> <<"w", Digits[i + 1]>>)]

PanelRow(genes, nv, nt, nd) ==
    [c \in gene_columns |->
        IF c = "Gene" THEN genes
        ELSE IF c = "VAF% G1" THEN SubSeq(VAFList, 1, nv)
        ELSE IF c = "Tier" THEN SubSeq(TierList, 1, nt)
        ELSE SubSeq(DescList, 1, nd)]

GeneInit ==
    /\ pc = "gene_start"
    /\ \E n \in 0..MaxList : \E genes \in [1..n -> GeneCells] :
       \E nv, nt, nd \in 0..MaxList :
          row = PanelRow(genes, nv, nt, nd)
    /\ gene_records = <<>>
    /\ sheet = <<>>
    /\ percentage_columns = <<>>
    /\ aggregated = <<>>
    /\ config = DefaultConfig
    /\ MainIdle
    /\ FitIdle

\* one call of combine_gene_info(row), lines 95-109
CombineGeneInfo ==
    /\ pc = "gene_start"
    /\ gene_records' = combine_gene_info(row)
    /\ pc' = "gene_done"
    /\ UNCHANGED <<cleanVars, row, fitVars, mainVars, twin>>

GeneNext == CombineGeneInfo

SpecGene == GeneInit /\ [][GeneNext]_vars

EqualLengths(r) ==
    \A c \in gene_columns : Len(r[c]) = Len(r["Gene"])

\* a Gene entry that stands for "no mutation": blank, the number 0, or a
\* text that is a single "0" with nothing but whitespace around it
Sentinel(gene) ==
    \/ gene.k = "null"
    \/ gene.k = "num" /\ gene.n = 0
    \/ gene.k = "str" /\ \E k \in 1..Len(gene.s) :
          /\ gene.s[k] = "0"
          /\ \A m \in 1..Len(gene.s) : m # k => gene.s[m] \in Whitespace

\* C3: for four lists of equal length the result is, in increasing index
\* order, one record per index whose Gene entry is no sentinel, built from
\* the four entries at that index.
C3_GeneRecordsOfKeptIndices ==
    (pc = "gene_done" /\ EqualLengths(row)) =>
        LET kept == SortedSeq({i \in 1..Len(row["Gene"]) :
                                  ~Sentinel(row["Gene"][i])})
        IN  /\ Len(gene_records) = Len(kept)
            /\ \A j \in 1..Len(kept) :
                  /\ DOMAIN gene_records[j] =
                        {"name", "VAF% G1", "Tier", "Variant description"}
                  /\ gene_records[j]["name"] = row["Gene"][kept[j]]
                  /\ gene_records[j]["VAF% G1"] = row["VAF% G1"][kept[j]]
                  /\ gene_records[j]["Tier"] = row["Tier"][kept[j]]
                  /\ gene_records[j]["Variant description"] =
                        row["Variant description"][kept[j]]

\* Gene=[0,"BRCA1","0"], VAF=[0.1,0.3,0.2], Tier=[1,2,3], Desc=["x","y","z"]
\* gives the one BRCA1 record with VAF 0.3, Tier 2, description "y"
C3_Witness ==
    /\ pc = "gene_done"
    /\ row["Gene"] = <<Num(0), Str(BRCA1), Str(<<"0">>)>>
    /\ row["VAF% G1"] = <<Num(1000), Num(3000), Num(2000)>>
    /\ row["Tier"] = <<Num(One), Num(2 * One), Num(3 * One)>>
    /\ row["Variant description"] = <<Str(<<"x">>), Str(<<"y">>), Str(<<"z">>)>>
    /\ Len(gene_records) = 1
    /\ gene_records[1]["name"] = Str(BRCA1)
    /\ gene_records[1]["VAF% G1"] = Num(3000)
    /\ gene_records[1]["Tier"] = Num(2 * One)
    /\ gene_records[1]["Variant description"] = Str(<<"y">>)

\* C6: combine_gene_info does not return a Gene list when the four panel
\* lists differ in length (it raises instead).
C6_UnequalLengthsNeverReturn ==
    pc = "gene_done" => EqualLengths(row)

(***************************************************************************)
(* data_fitting (data.py 268-372), called twice by main (main.py 17-18).   *)
(***************************************************************************)
\* df.dropna(subset=[col])
dropna(tbl, col) == SelectSeq(tbl, LAMBDA r : ~isna(r[col]))

\* the non-null numbers of a column, as fixed-point integers
present_values(tbl, col) ==
    LET cells == SelectSeq(Column(tbl, col), LAMBDA c : ~isna(c))
    IN  [i \in 1..Len(cells) |-> cells[i].n]

RECURSIVE Sum(_)
Sum(s) == IF s = <<>> THEN 0 ELSE Head(s) + Sum(Tail(s))

\* a list of integers in increasing order, duplicates kept
RECURSIVE sorted_list(_)
sorted_list(s) ==
    IF s = <<>> THEN <<>>
    ELSE LET m == Min({s[i] : i \in 1..Len(s)})
             k == Min({i \in 1..Len(s) : s[i] = m})
         IN  <<m>> \o sorted_list(SubSeq(s, 1, k - 1) \o SubSeq(s, k + 1, Len(s)))

\* pd.api.types.is_numeric_dtype(df[col]): the column holds numbers only
is_numeric_dtype(tbl, col) ==
    \A i \in 1..Len(tbl) : tbl[i][col].k \in {"num", "null"}

\* the sum of the values over the number of rows, nulls counted
column_mean_over_rows(tbl, col) ==
    LET v == present_values(tbl, col)
    IN  IF v = <<>> THEN NULL ELSE Num(Sum(v) \div Len(tbl))

\* df[col].mean(): NaN for a column without a number
column_mean(tbl, col) ==
    LET v == present_values(tbl, col)
    IN  IF v = <<>> THEN NULL ELSE Num(Sum(v) \div Len(v))

\* df[col].median()
column_median(tbl, col) ==
    LET v == sorted_list(present_values(tbl, col))
        h == Len(v) \div 2
    IN  IF v = <<>> THEN NULL
        ELSE IF Len(v) % 2 = 1 THEN Num(v[h + 1])
        ELSE Num((v[h] + v[h + 1]) \div 2)

\* the order of characters (digits, capitals, small letters; any other
\* character of the model comes before them)
Alphabet == Digits \o Upper \o Lower

CharRank(ch) ==
    IF \E i \in 1..Len(Alphabet) : Alphabet[i] = ch
    THEN CHOOSE i \in 1..Len(Alphabet) : Alphabet[i] = ch ELSE 0

\* a < b for two texts
RECURSIVE text_less(_, _)
text_less(a, b) ==
    IF b = <<>> THEN FALSE
    ELSE IF a = <<>> THEN TRUE
    ELSE IF Head(a) = Head(b) THEN text_less(Tail(a), Tail(b))
    ELSE CharRank(Head(a)) < CharRank(Head(b))

\* a < b for two cells of one kind
cell_less(a, b) == IF a.k = "str" THEN text_less(a.s, b.s) ELSE a.n < b.n

\* a finite set of cells of one kind in increasing order
RECURSIVE sorted_cells(_)
sorted_cells(S) ==
    IF S = {} THEN <<>>
    ELSE LET least == CHOOSE c \in S : \A d \in S \ {c} : cell_less(c, d)
         IN  <<least>> \o sorted_cells(S \ {least})

\* df[col].mode(): the most frequent values in increasing order (a column of
\* the model holds numbers or texts, not both)
column_mode(tbl, col) ==
    LET cells == SelectSeq(Column(tbl, col), LAMBDA c : ~isna(c))
        count(c) == Cardinality({i \in 1..Len(cells) : cells[i] = c})
        top == {cells[i] : i \in {j \in 1..Len(cells) :
                   \A m \in 1..Len(cells) : count(cells[j]) >= count(cells[m])}}
    IN  sorted_cells(top)

\* df[col].fillna(v); filling with NaN changes nothing
fillna(tbl, col, v) ==
    [i \in 1..Len(tbl) |->
        IF isna(tbl[i][col]) /\ ~isna(v) THEN [tbl[i] EXCEPT ![col] = v]
        ELSE tbl[i]]

(***************************************************************************)
(* Dates and the calc strategy (data.py 317-337).  A date cell has         *)
(* k = "date" and n = its day number, counted from 1970-01-01.  A calc     *)
(* object of the config file is the tuple of its four values behind the    *)
(* mark "{}", which no text begins with.                                   *)
(***************************************************************************)
Date(d) == [k |-> "date", n |-> d, s |-> <<>>]

CalcSpec(first_input, second_input, operator, unit) ==
    <<"{}", first_input, second_input, operator, unit>>

\* isinstance(option, dict)
is_dict(opt) == opt # <<>> /\ opt[1] = "{}"

IsLeap(y) == (y % 4 = 0 /\ y % 100 # 0) \/ y % 400 = 0

\* the days of a month in a calendar without leap years
DaysInMonth_without_leap_years(y, m) ==
    IF m = 2 THEN 28 ELSE IF m \in {4, 6, 9, 11} THEN 30 ELSE 31

DaysInMonth(y, m) ==
    IF m = 2 THEN (IF IsLeap(y) THEN 29 ELSE 28)
    ELSE IF m \in {4, 6, 9, 11} THEN 30 ELSE 31

RECURSIVE DaysBeforeMonth(_, _)
DaysBeforeMonth(y, m) ==
    IF m <= 1 THEN 0 ELSE DaysInMonth(y, m - 1) + DaysBeforeMonth(y, m - 1)

\* the day number of the civil date y-m-d
DayNumber(y, m, d) ==
    (IF y >= 1970
     THEN 365 * (y - 1970) + Cardinality({z \in 1970..(y - 1) : IsLeap(z)})
     ELSE 0 - (365 * (1970 - y) + Cardinality({z \in y..1969 : IsLeap(z)})))
    + DaysBeforeMonth(y, m) + (d - 1)

\* pd.to_datetime(errors="coerce") of a text: a date written YYYY-MM-DD is
\* read, anything else becomes NaT
parse_datetime(s) ==
    IF /\ Len(s) = 10
       /\ s[5] = "-" /\ s[8] = "-"
       /\ \A i \in {1, 2, 3, 4, 6, 7, 9, 10} : IsDigit(s[i])
    THEN LET y == DigitsValue(SubSeq(s, 1, 4))
             m == DigitsValue(SubSeq(s, 6, 7))
             d == DigitsValue(SubSeq(s, 9, 10))
         IN  IF m \in 1..12 /\ d >= 1 /\ d <= DaysInMonth(y, m)
             THEN Date(DayNumber(y, m, d)) ELSE NULL
    ELSE NULL

\* a moment of 1970-01-01, ns/One nanoseconds after midnight (less than a
\* day of them)
Moment(ns) == [k |-> "ns", n |-> ns, s |-> <<>>]

\* lines 330-331 on one cell: a date stays, a text is parsed, a number is
\* read as that many nanoseconds after 1970-01-01 00:00
to_datetime(c) ==
    CASE c.k = "null" -> NULL
      [] c.k = "date" -> c
      [] c.k = "str"  -> parse_datetime(c.s)
      [] c.k = "num"  -> Moment(c.n)
      [] c.k = "ns"   -> c

\* (a - b).days of line 334: the whole days of the difference, rounded down
days_between(a, b) ==
    LET day(c)  == IF c.k = "ns" THEN 0 ELSE c.n
        part(c) == IF c.k = "ns" THEN c.n ELSE 0
    IN  day(a) - day(b) - (IF part(a) < part(b) THEN 1 ELSE 0)

month == <<"m", "o", "n", "t", "h">>

\* the calculation made whatever the operator and the unit are
apply_calc_any_unit(tbl, col, calc_conf) ==
    LET first_input  == calc_conf[2]
        second_input == calc_conf[3]
    IN  [i \in 1..Len(tbl) |->
            LET a == to_datetime(tbl[i][first_input])
                b == to_datetime(tbl[i][second_input])
                r == [tbl[i] EXCEPT ![first_input] = a, ![second_input] = b]
            IN  IF isna(tbl[i][col]) /\ ~isna(a) /\ ~isna(b)
                THEN [r EXCEPT ![col] = Num((days_between(a, b) * One) \div 30)]
                ELSE r]

\* the calculation written into every row that has both dates, whatever
\* its target holds
apply_calc_every_row(tbl, col, calc_conf) ==
    LET first_input  == calc_conf[2]
        second_input == calc_conf[3]
    IN  IF calc_conf[4] # "-" \/ lower(calc_conf[5]) # month THEN tbl
        ELSE [i \in 1..Len(tbl) |->
                 LET a == to_datetime(tbl[i][first_input])
                     b == to_datetime(tbl[i][second_input])
                     r == [tbl[i] EXCEPT ![first_input] = a, ![second_input] = b]
                 IN  IF ~isna(a) /\ ~isna(b)
                     THEN [r EXCEPT ![col] = Num((days_between(a, b) * One) \div 30)]
                     ELSE r]

\* lines 322-337: the table after the calc object calc_conf is applied to col
apply_calc(tbl, col, calc_conf) ==
    LET first_input  == calc_conf[2]
        second_input == calc_conf[3]
        op           == calc_conf[4]
        unit         == lower(calc_conf[5])
        conv == [i \in 1..Len(tbl) |->
                    [c \in DOMAIN tbl[i] |->
                        IF c \in {first_input, second_input}
                        THEN to_datetime(tbl[i][c]) ELSE tbl[i][c]]]
    IN  IF op # "-" \/ unit # month THEN tbl
        ELSE [i \in 1..Len(tbl) |->
                 IF /\ isna(conv[i][col])
                    /\ ~isna(conv[i][first_input])
                    /\ ~isna(conv[i][second_input])
                 THEN [conv[i] EXCEPT ![col] =
                          Num((days_between(conv[i][first_input],
                                            conv[i][second_input]) * One) \div 30)]
                 ELSE conv[i]]

\* lines 316-367: the table after the strategy opt is applied to col.  A text
\* "calc" carries no calculation configuration and is skipped; an unknown
\* text matches no branch.
apply_option(tbl, col, opt) ==
    IF is_dict(opt) THEN apply_calc(tbl, col, opt)
    ELSE IF opt = calc THEN tbl
    ELSE IF opt = drop THEN dropna(tbl, col)
    ELSE IF opt = mean THEN
        (IF is_numeric_dtype(tbl, col) THEN fillna(tbl, col, column_mean(tbl, col))
         ELSE tbl)
    ELSE IF opt = median THEN
        (IF is_numeric_dtype(tbl, col) THEN fillna(tbl, col, column_median(tbl, col))
         ELSE tbl)
    ELSE IF opt = mode THEN
        (IF column_mode(tbl, col) # <<>> THEN fillna(tbl, col, column_mode(tbl, col)[1])
         ELSE tbl)
    ELSE IF opt = zero THEN fillna(tbl, col, Num(0))
    ELSE tbl

\* line 340 binds df to a new table; every other branch writes into the
\* table df already is
rebinds_df(opt) == ~is_dict(opt) /\ opt = drop

\* line 298: df.loc[df[col].isnull(), "UR"].tolist()
missing_of(tbl, col) ==
    Column(SelectSeq(tbl, LAMBDA r : isna(r[col])), "UR")

\* line 307 / 309: input(...).strip().lower()
read_option(line) == lower(strip(line))

\* what the user may type at the prompt
InputLines ==
    {drop, mean, median, mode, zero, calc,
     <<" ", "Z", "e", "r", "o", " ">>, <<"n", "o">>, <<>>}

\* the strategies a config file may hold before the first run
PersistedOptions == {NoOption, drop, zero}

(***************************************************************************)
(* data_derive (data.py 182-266).                                          *)
(*                                                                         *)
(* A label dictionary {code: label} is the sequence of its <<code, label>> *)
(* pairs in insertion order.  An entry of header_metadata is a record      *)
(* [k, s, d]: k = "str" with the description text s (process_headers), or  *)
(* k = "dict" with the label dictionary d (data_derive).                   *)
(***************************************************************************)
\* d.setdefault(key, label): a key the dict holds keeps its label
dict_set_keeping_first(d, key, label) ==
    IF \E i \in 1..Len(d) : d[i][1] = key THEN d ELSE Append(d, <<key, label>>)

\* d[key] = label on a Python dict
dict_set(d, key, label) ==
    IF \E i \in 1..Len(d) : d[i][1] = key
    THEN [i \in 1..Len(d) |-> IF d[i][1] = key THEN <<key, label>> ELSE d[i]]
    ELSE Append(d, <<key, label>>)

\* header_metadata[col] = entry
meta_set(meta, col, entry) ==
    [c \in DOMAIN meta \cup {col} |-> IF c = col THEN entry ELSE meta[c]]

\* df[col_name] = values, one per row
set_column(tbl, col_name, values) ==
    [i \in 1..Len(tbl) |->
        [c \in DOMAIN tbl[i] \cup {col_name} |->
            IF c = col_name THEN values[i] ELSE tbl[i][c]]]

\* one rule of a mapping, {label: {"floor", "ceiling", "int_value"}}; the
\* bounds are fixed-point numbers, a bound left out is infinite
MapRule(label, has_floor, floor, has_ceiling, ceiling, int_value) ==
    [label |-> label, has_floor |-> has_floor, floor |-> floor,
     has_ceiling |-> has_ceiling, ceiling |-> ceiling, int_value |-> int_value]

\* the ceiling taken as part of the interval
RECURSIVE map_value_ceiling_inclusive(_, _, _)
map_value_ceiling_inclusive(value, mapping_rules, k) ==
    IF k > Len(mapping_rules) THEN NULL
    ELSE LET rule == mapping_rules[k]
         IN  IF /\ (~rule.has_floor \/ rule.floor <= value.n)
                /\ (~rule.has_ceiling \/ value.n <= rule.ceiling)
             THEN Num(rule.int_value * One)
             ELSE map_value_ceiling_inclusive(value, mapping_rules, k + 1)

\* lines 220-229: map_value, the loop from rule k on
RECURSIVE map_value_from(_, _, _)
map_value_from(value, mapping_rules, k) ==
    IF k > Len(mapping_rules) THEN NULL
    ELSE LET rule == mapping_rules[k]
         IN  IF /\ (~rule.has_floor \/ rule.floor <= value.n)
                /\ (~rule.has_ceiling \/ value.n < rule.ceiling)
             THEN Num(rule.int_value * One)
             ELSE map_value_from(value, mapping_rules, k + 1)

map_value(value, mapping_rules) == map_value_from(value, mapping_rules, 1)

\* line 235: {v["int_value"]: k for rule in mapping_rules for k, v in ...}
RECURSIVE mapping_labels(_, _)
mapping_labels(mapping_rules, k) ==
    IF k = 0 THEN <<>>
    ELSE dict_set(mapping_labels(mapping_rules, k - 1),
                  Num(mapping_rules[k].int_value * One), mapping_rules[k].label)

\* the criteria of one column in an "if": {"greater_than", "less_than"}
Crit(has_gt, greater_than, has_lt, less_than) ==
    [has_gt |-> has_gt, greater_than |-> greater_than,
     has_lt |-> has_lt, less_than |-> less_than]

\* a clause {"if": {column: criteria, ...}, "then": {"value", "label"}}; the
\* "if" is the sequence of its <<column, criteria>> items
Clause(if_clause, value, label) ==
    [if |-> if_clause, then |-> [value |-> value, label |-> label]]

\* lines 250-251 for one item:
\*   (row[col] > crit["greater_than"]) if "greater_than" in crit else True and
\*   (row[col] < crit["less_than"]) if "less_than" in crit else True
\* which Python reads as   A if G else ((True and B) if L else True).
\* row[col] of a column the row does not have raises KeyError; a comparison
\* with NaN is false.
crit_result(r, col, crit) ==
    IF ~crit.has_gt /\ ~crit.has_lt THEN "met"
    ELSE IF col \notin DOMAIN r THEN "raise"
    ELSE IF isna(r[col]) THEN "unmet"
    ELSE IF crit.has_gt
         THEN (IF r[col].n > crit.greater_than THEN "met" ELSE "unmet")
         ELSE (IF r[col].n < crit.less_than THEN "met" ELSE "unmet")

\* line 248: all(...) over the items from item k on, stopping at the first
\* item that is not met
RECURSIVE all_met(_, _, _)
all_met(r, if_clause, k) ==
    IF k > Len(if_clause) THEN "met"
    ELSE LET here == crit_result(r, if_clause[k][1], if_clause[k][2])
         IN  IF here = "met" THEN all_met(r, if_clause, k + 1) ELSE here

\* lines 242-257: evaluate_conditions(row) from clause k on: the value, or
\* the exception
RECURSIVE evaluate_conditions(_, _, _, _)
evaluate_conditions(r, conditions, default_value, k) ==
    IF k > Len(conditions) THEN [raised |-> FALSE, value |-> default_value]
    ELSE LET here == all_met(r, conditions[k].if, 1)
         IN  IF here = "raise" THEN [raised |-> TRUE, value |-> NULL]
             ELSE IF here = "met"
             THEN [raised |-> FALSE, value |-> Num(conditions[k].then.value * One)]
             ELSE evaluate_conditions(r, conditions, default_value, k + 1)

\* line 263: {cond["then"]["value"]: cond["then"]["label"] for cond in ...}
RECURSIVE condition_labels(_, _)
condition_labels(conditions, k) ==
    IF k = 0 THEN <<>>
    ELSE dict_set(condition_labels(conditions, k - 1),
                  Num(conditions[k].then.value * One), conditions[k].then.label)

\* an entry of data.data_derivation.columns
ColDef(name, method, base_column, map, conditions, default_value, default_label) ==
    [name |-> name, method |-> method, base_column |-> base_column,
     map |-> map, conditions |-> conditions,
     default_value |-> default_value, default_label |-> default_label]

\* the columns of the tables that hold lists
list_columns == {"Gene"}

\* lines 208-264 for one entry: the table, the label dictionary, and
\* whether an exception left the function
derive_column(tbl, meta, col_def) ==
    LET same == [df |-> tbl, header_metadata |-> meta, raised |-> FALSE]
        base == col_def.base_column
    IN  IF col_def.method = "Count" THEN
            IF base \in DOMAIN tbl[1]
            THEN [same EXCEPT !.df = set_column(tbl, col_def.name,
                    [i \in 1..Len(tbl) |->
                        IF base \in list_columns
                        THEN Num(Len(tbl[i][base]) * One) ELSE Num(0)])]
            ELSE same
        ELSE IF col_def.method = "mapping" THEN
            [df |-> IF base \in DOMAIN tbl[1]
                    THEN set_column(tbl, col_def.name,
                            [i \in 1..Len(tbl) |->
                                IF isna(tbl[i][base]) THEN NULL
                                ELSE map_value(tbl[i][base], col_def.map)])
                    ELSE tbl,
             header_metadata |->
                meta_set(meta, col_def.name,
                         Labels(mapping_labels(col_def.map, Len(col_def.map)))),
             raised |-> FALSE]
        ELSE IF col_def.method = "conditional" THEN
            LET values == [i \in 1..Len(tbl) |->
                              evaluate_conditions(tbl[i], col_def.conditions,
                                                  col_def.default_value, 1)]
            IN  IF \E i \in 1..Len(tbl) : values[i].raised
                THEN [same EXCEPT !.raised = TRUE]
                ELSE [df |-> set_column(tbl, col_def.name,
                                [i \in 1..Len(tbl) |-> values[i].value]),
                      header_metadata |->
                         meta_set(meta, col_def.name,
                            Labels(dict_set(
                               condition_labels(col_def.conditions,
                                                Len(col_def.conditions)),
                               col_def.default_value, col_def.default_label))),
                      raised |-> FALSE]
        ELSE same

\* lines 207-266: the loop from entry k on
RECURSIVE derive_loop(_, _, _, _)
derive_loop(tbl, meta, cols, k) ==
    IF k > Len(cols) THEN [df |-> tbl, header_metadata |-> meta, raised |-> FALSE]
    ELSE LET here == derive_column(tbl, meta, cols[k])
         IN  IF here.raised THEN here
             ELSE derive_loop(here.df, here.header_metadata, cols, k + 1)

\* data_derive(df): header_metadata starts empty (line 205)
data_derive(tbl, cols) == derive_loop(tbl, <<>>, cols, 1)

(***************************************************************************)
(* main.py 21 and 43: data_derive and generate_metadata_mapping.  The      *)
(* prints of main.py 23-40 read the table and change nothing.              *)
(***************************************************************************)
\* the character classes \d, \s, \w and [=:-] of the pattern of line 127
IsSpace(ch)     == ch \in Whitespace
IsWord(ch)      == CharRank(ch) > 0 \/ ch = "_"
IsSeparator(ch) == ch \in {"=", ":", "-"}

AllIn(s, from, to, Class(_)) == \A j \in from..to : Class(s[j])

\* the ways (\d+)\s*[=:-]?\s*([\w\s]+) matches s from position i on:
\* <<e, a, b, c>> with the digits s[i..e], then a blanks, b separators
\* (0 or 1), c blanks, then the label, which needs one character
Matches(s, i) ==
    {m \in (i..Len(s)) \X (0..Len(s)) \X (0..1) \X (0..Len(s)) :
        LET e == m[1]
            t == m[1] + 1 + m[2]
            v == m[1] + 1 + m[2] + m[3] + m[4]
        IN  /\ v <= Len(s)
            /\ AllIn(s, i, e, IsDigit)
            /\ AllIn(s, e + 1, t - 1, IsSpace)
            /\ (m[3] = 1 => IsSeparator(s[t]))
            /\ AllIn(s, t + m[3], v - 1, IsSpace)
            /\ (IsWord(s[v]) \/ IsSpace(s[v]))}

\* every quantifier is greedy and the later one gives way first: the match
\* taken is the greatest <<e, a, b, c>> in lexicographic order
Preferred(m, o) ==
    \/ m[1] > o[1]
    \/ m[1] = o[1] /\ m[2] > o[2]
    \/ m[1] = o[1] /\ m[2] = o[2] /\ m[3] > o[3]
    \/ m[1] = o[1] /\ m[2] = o[2] /\ m[3] = o[3] /\ m[4] >= o[4]

\* re.findall(pattern, mapping) from position pos on, gathered into
\* {int(num): label} (line 128)
RECURSIVE findall_from(_, _, _)
findall_from(s, pos, found) ==
    LET starts == {i \in pos..Len(s) : Matches(s, i) # {}}
    IN  IF starts = {} THEN found
        ELSE LET i == Min(starts)
                 m == CHOOSE x \in Matches(s, i) :
                         \A o \in Matches(s, i) : Preferred(x, o)
                 v == m[1] + 1 + m[2] + m[3] + m[4]
                 w == Max({j \in v..Len(s) :
                              \A q \in v..j : IsWord(s[q]) \/ IsSpace(s[q])})
             IN  findall_from(s, w + 1,
                     dict_set(found, Num(DigitsValue(SubSeq(s, i, m[1])) * One),
                              SubSeq(s, v, w)))

findall_labels(s) == findall_from(s, 1, <<>>)

\* lines 121-130: a dict entry is taken over as it is (line 125), a text
\* entry is searched for "number label" pairs (lines 127-128)
generate_metadata_mapping(meta) ==
    [c \in {x \in DOMAIN meta : meta[x].k \in {"dict", "str"}} |->
        IF meta[c].k = "dict" THEN meta[c].d ELSE findall_labels(meta[c].s)]

\* main.py 21: aggregated, header_metadata = data_derive(aggregated).  The
\* rules write into the caller's table; an exception ends main.
DataDerive ==
    /\ pc = "fitted2"
    /\ LET result == data_derive(aggregated, columns_to_derive)
       IN  /\ aggregated' = result.df
           /\ IF result.raised
              THEN pc' = "crashed" /\ UNCHANGED header_metadata
              ELSE pc' = "derived" /\ header_metadata' = result.header_metadata
    /\ UNCHANGED <<sheet, percentage_columns, geneVars, fitVars, headers,
                   columns_to_derive, metadata_lookup, twin>>

\* main.py 43
GenerateMetadataMapping ==
    /\ pc = "derived"
    /\ metadata_lookup' = generate_metadata_mapping(header_metadata)
    /\ pc' = "mapped"
    /\ UNCHANGED <<cleanVars, geneVars, fitVars, headers, header_metadata,
                   columns_to_derive, twin>>

(***************************************************************************)
(* data_derive on the tables and derivation rules of the model: main taken *)
(* up at main.py 21.                                                       *)
(***************************************************************************)
\* the Ferritin values of the tables: blank, below 0, 0, inside [0, 20),
\* just below 20, 20, above 20
DeriveValues ==
    <<NULL, Num(0 - 5 * One), Num(0), Num(15 * One), Num(20 * One - 1),
      Num(20 * One), Num(25 * One)>>

\* the TF Sats values of the tables: 0.2 and 0.8
SatsValues == <<Num(One \div 5), Num(4 * (One \div 5))>>

\* row i has i - 1 gene records
DeriveRow(i, fe, tf) ==
    [c \in {"UR", "Ferritin", "TF Sats", "Gene"} |->
        IF c = "UR" THEN Num(i * One)
        ELSE IF c = "Ferritin" THEN fe
        ELSE IF c = "TF Sats" THEN tf
        ELSE [g \in 1..(i - 1) |->
                 GeneRecord(Str(BRCA1), VAFAt(g), TierAt(g), DescAt(g))]]

NoCrit == Crit(FALSE, 0, FALSE, 0)

\* [0, 20) -> 1, [20, inf) -> 2
MapAdjacent ==
    ColDef("Ferritin Class", "mapping", "Ferritin",
           <<MapRule("low", TRUE, 0, TRUE, 20 * One, 1),
             MapRule("high", TRUE, 20 * One, FALSE, 0, 2)>>,
           <<>>, NULL, "Unknown")

\* (-inf, 20) -> 1, [0, 30) -> 2: the intervals overlap on [0, 20)
MapOverlap ==
    ColDef("Ferritin Class", "mapping", "Ferritin",
           <<MapRule("low", FALSE, 0, TRUE, 20 * One, 1),
             MapRule("mid", TRUE, 0, TRUE, 30 * One, 2)>>,
           <<>>, NULL, "Unknown")

\* [20, inf) -> 2, [0, 10) -> 1: a gap, the higher interval declared first
MapGap ==
    ColDef("Ferritin Class", "mapping", "Ferritin",
           <<MapRule("high", TRUE, 20 * One, FALSE, 0, 2),
             MapRule("low", TRUE, 0, TRUE, 10 * One, 1)>>,
           <<>>, NULL, "Unknown")

\* a mapping of a column the table does not have
MapAbsent ==
    ColDef("BM Iron stores Class", "mapping", "BM Iron stores",
           <<MapRule("reduced", FALSE, 0, TRUE, One, 0),
             MapRule("normal", TRUE, One, FALSE, 0, 1)>>,
           <<>>, NULL, "Unknown")

CountGenes  == ColDef("Mutations", "Count", "Gene", <<>>, <<>>, NULL, "Unknown")
CountAbsent == ColDef("Variants", "Count", "Variant", <<>>, <<>>, NULL, "Unknown")

\* 10 < Ferritin < 20 -> 1, else 0
CondBoth ==
    ColDef("Serum Iron Class", "conditional", "",
           <<>>,
           <<Clause(<< <<"Ferritin", Crit(TRUE, 10 * One, TRUE, 20 * One)>> >>,
                    1, "mid")>>,
           Num(0), "other")

\* Ferritin < 0 -> 3, then Ferritin > 10 -> 1, no default given
CondTwoClauses ==
    ColDef("Serum Iron Class", "conditional", "",
           <<>>,
           <<Clause(<< <<"Ferritin", Crit(FALSE, 0, TRUE, 0)>> >>, 3, "negative"),
             Clause(<< <<"Ferritin", Crit(TRUE, 10 * One, FALSE, 0)>> >>, 1, "raised")>>,
           NULL, "Unknown")

\* Ferritin > 10 and TF Sats < 0.5 -> 1, else 0
CondTwoColumns ==
    ColDef("Serum Iron Class", "conditional", "",
           <<>>,
           <<Clause(<< <<"Ferritin", Crit(TRUE, 10 * One, FALSE, 0)>>,
                       <<"TF Sats", Crit(FALSE, 0, TRUE, One \div 2)>> >>,
                    1, "iron")>>,
           Num(0), "other")

\* Ferritin > 10 -> 0, then Ferritin < 0 -> 1, then TF Sats < 0.5 -> 1,
\* else 0: the default has the value of the first clause, the third clause
\* that of the second
CondSharedValues ==
    ColDef("Serum Iron Class", "conditional", "",
           <<>>,
           <<Clause(<< <<"Ferritin", Crit(TRUE, 10 * One, FALSE, 0)>> >>, 0, "raised"),
             Clause(<< <<"Ferritin", Crit(FALSE, 0, TRUE, 0)>> >>, 1, "negative"),
             Clause(<< <<"TF Sats", Crit(FALSE, 0, TRUE, One \div 2)>> >>,
                    1, "unsaturated")>>,
           Num(0), "other")

\* a condition on a column the table does not have
CondAbsent ==
    ColDef("BM Iron stores Class", "conditional", "",
           <<>>,
           <<Clause(<< <<"BM Iron stores", Crit(TRUE, One, FALSE, 0)>> >>,
                    1, "normal")>>,
           Num(0), "reduced")

\* the lists data.data_derivation.columns may be
DerivationConfigs ==
    << <<MapAdjacent>>, <<MapOverlap>>, <<MapGap>>,
       <<MapAbsent, CountGenes>>, <<CountAbsent, MapAdjacent>>,
       <<CondBoth>>, <<CondTwoClauses>>, <<CondTwoColumns>>,
       <<CondAbsent, CountGenes>>, <<CountGenes, CondBoth>>,
       <<MapAdjacent, CondAbsent>>, <<CondSharedValues>>, <<>> >>

DeriveInit ==
    /\ pc = "fitted2"
    /\ \E n \in 1..MaxPatients :
       \E f \in [1..n -> (1..Len(DeriveValues)) \X (1..Len(SatsValues))] :
          aggregated = [i \in 1..n |->
                           DeriveRow(i, DeriveValues[f[i][1]], SatsValues[f[i][2]])]
    /\ \E k \in 1..Len(DerivationConfigs) :
          columns_to_derive = DerivationConfigs[k]
    /\ headers = <<>>
    /\ header_metadata = <<>>
    /\ metadata_lookup = <<>>
    /\ sheet = <<>>
    /\ percentage_columns = <<>>
    /\ row = <<>>
    /\ gene_records = <<>>
    /\ config = DefaultConfig
    /\ data_fitting_config = <<>>
    /\ df = <<>>
    /\ df_is_aggregated = FALSE
    /\ columns_to_check = <<>>
    /\ ci = 0
    /\ option = NoOption
    /\ missing_urs = <<>>
    /\ call = 2
    /\ run = 1
    /\ returned = <<>>
    /\ twin = <<>>

DeriveNext == DataDerive \/ GenerateMetadataMapping

SpecDerive == DeriveInit /\ [][DeriveNext]_vars

(***************************************************************************)
(* The runs of main: the sheets, the config files, the steps.              *)
(***************************************************************************)
\* the value of a data cell of patient i
FitValue(i) == Num(6 * i * One)

FitRow(i, dx, fe, tf) ==
    [c \in gene_columns \cup {"UR", "Dx OS", "Ferritin", "TF Sats"} |->
        IF c = "UR" THEN Num(i * One)
        ELSE IF c = "Gene" THEN NULL
        ELSE IF c = "VAF% G1" THEN VAFAt(i)
        ELSE IF c = "Tier" THEN TierAt(i)
        ELSE IF c = "Variant description" THEN DescAt(i)
        ELSE IF c = "Dx OS" THEN (IF dx THEN FitValue(i) ELSE NULL)
        ELSE IF c = "Ferritin" THEN (IF fe THEN FitValue(i) ELSE NULL)
        ELSE (IF tf THEN FitValue(i) ELSE NULL)]

FitInit ==
    /\ pc = "start"
    /\ \E n \in 1..MaxPatients : \E f \in [1..n -> BOOLEAN \X BOOLEAN \X BOOLEAN] :
          sheet = [i \in 1..n |-> FitRow(i, f[i][1], f[i][2], f[i][3])]
    /\ percentage_columns = <<>>
    /\ MainStart(<<MapAdjacent>>)
    /\ aggregated = <<>>
    /\ row = <<>>
    /\ gene_records = <<>>
    /\ \/ config = ConfigFile(FALSE, NoStrategies)
       \/ \E s \in [FittingColumns \ {"BM Iron stores"} -> PersistedOptions] :
             config = ConfigFile(TRUE,
                        [c \in FittingColumns |->
                            IF c \in DOMAIN s THEN s[c] ELSE NoOption])
    /\ FitIdle

\* the column the loop of line 292 is at
CurrentColumn == columns_to_check[ci]

\* lines 316-367 on df; a write into df is a write into the caller's table
\* as long as df is that table
ApplyOption(opt) ==
    /\ df' = apply_option(df, CurrentColumn, opt)
    /\ df_is_aggregated' = (df_is_aggregated /\ ~rebinds_df(opt))
    /\ aggregated' = IF df_is_aggregated /\ ~rebinds_df(opt)
                     THEN apply_option(df, CurrentColumn, opt)
                     ELSE aggregated

\* main.py 17 and 18, data.py 280-290: data_fitting is entered with the
\* caller's table and the strategies of the config file
CallDataFitting ==
    /\ pc \in {"cleansed", "fitted1"}
    /\ call' = IF pc = "cleansed" THEN 1 ELSE 2
    /\ columns_to_check' = IF pc = "cleansed" THEN <<"Dx OS">>
                           ELSE <<"Ferritin", "TF Sats", "BM Iron stores">>
    /\ data_fitting_config' =
          IF config.has_data THEN config.data_fitting ELSE NoStrategies
    /\ df' = aggregated
    /\ df_is_aggregated' = TRUE
    /\ ci' = 1
    /\ pc' = "fit_loop"
    /\ UNCHANGED <<twin, cleanVars, geneVars, mainVars, config, option, missing_urs, run, returned>>

\* lines 293-295: the column is not in the table
SkipAbsentColumn ==
    /\ pc = "fit_loop" /\ ci <= Len(columns_to_check)
    /\ CurrentColumn \notin DOMAIN aggregated[1]
    /\ ci' = ci + 1
    /\ UNCHANGED <<pc, twin, cleanVars, geneVars, mainVars, config, data_fitting_config, df,
                   df_is_aggregated, columns_to_check, option, missing_urs,
                   call, run, returned>>

\* lines 298-303 with the strategy of the column looked up before the
\* missing values are
NoMissingData_after_lookup ==
    /\ pc = "fit_loop" /\ ci <= Len(columns_to_check)
    /\ CurrentColumn \in DOMAIN aggregated[1]
    /\ missing_of(df, CurrentColumn) = <<>>
    /\ missing_urs' = <<>>
    /\ option' = data_fitting_config[CurrentColumn]
    /\ ci' = ci + 1
    /\ UNCHANGED <<pc, twin, cleanVars, geneVars, mainVars, config, data_fitting_config, df,
                   df_is_aggregated, columns_to_check, call, run, returned>>

\* lines 298-299, 369-370: the column has no missing value
NoMissingData ==
    /\ pc = "fit_loop" /\ ci <= Len(columns_to_check)
    /\ CurrentColumn \in DOMAIN aggregated[1]
    /\ missing_of(df, CurrentColumn) = <<>>
    /\ missing_urs' = <<>>
    /\ ci' = ci + 1
    /\ UNCHANGED <<pc, twin, cleanVars, geneVars, mainVars, config, data_fitting_config, df,
                   df_is_aggregated, columns_to_check, option, call, run, returned>>

\* lines 298-305, 316-367: missing values and a strategy in the config
ResolvePersisted ==
    /\ pc = "fit_loop" /\ ci <= Len(columns_to_check)
    /\ CurrentColumn \in DOMAIN aggregated[1]
    /\ missing_of(df, CurrentColumn) # <<>>
    /\ data_fitting_config[CurrentColumn] # NoOption
    /\ missing_urs' = missing_of(df, CurrentColumn)
    /\ option' = data_fitting_config[CurrentColumn]
    /\ ApplyOption(data_fitting_config[CurrentColumn])
    /\ ci' = ci + 1
    /\ UNCHANGED <<pc, twin, sheet, percentage_columns, geneVars, mainVars, config,
                   data_fitting_config, columns_to_check, call, run, returned>>

\* lines 298-307: missing values and no strategy: the prompt is shown
AskStrategy ==
    /\ pc = "fit_loop" /\ ci <= Len(columns_to_check)
    /\ CurrentColumn \in DOMAIN aggregated[1]
    /\ missing_of(df, CurrentColumn) # <<>>
    /\ data_fitting_config[CurrentColumn] = NoOption
    /\ missing_urs' = missing_of(df, CurrentColumn)
    /\ option' = NoOption
    /\ pc' = "prompt"
    /\ UNCHANGED <<twin, cleanVars, geneVars, mainVars, config, data_fitting_config, df,
                   df_is_aggregated, columns_to_check, ci, call, run, returned>>

\* lines 307-309: a line that is no allowed option is asked for again
PromptInvalid ==
    /\ pc = "prompt"
    /\ \E line \in InputLines :
          /\ read_option(line) \notin allowed_options
          /\ option' = read_option(line)
    /\ UNCHANGED <<pc, twin, cleanVars, geneVars, mainVars, config, data_fitting_config, df,
                   df_is_aggregated, columns_to_check, ci, missing_urs, call,
                   run, returned>>

\* lines 307-367: an allowed option is stored in the strategies, the config
\* file is rewritten and the option applied.  Line 312 indexes
\* config["data"]: a config file without that key raises KeyError there.
PromptValid ==
    /\ pc = "prompt"
    /\ \E line \in InputLines :
          /\ read_option(line) \in allowed_options
          /\ option' = read_option(line)
          /\ data_fitting_config' =
                [data_fitting_config EXCEPT ![CurrentColumn] = read_option(line)]
          /\ IF config.has_data
             THEN /\ config' = [config EXCEPT !.data_fitting =
                      [data_fitting_config EXCEPT ![CurrentColumn] = read_option(line)]]
                  /\ ApplyOption(read_option(line))
                  /\ ci' = ci + 1
                  /\ pc' = "fit_loop"
             ELSE /\ pc' = "crashed"
                  /\ UNCHANGED <<config, df, df_is_aggregated, aggregated, ci>>
    /\ UNCHANGED <<twin, sheet, percentage_columns, geneVars, mainVars, columns_to_check,
                   missing_urs, call, run, returned>>

\* line 372 and main.py 17-18: data_fitting returns df, main does not use
\* the returned table
ReturnFromFitting ==
    /\ pc = "fit_loop" /\ ci > Len(columns_to_check)
    /\ returned' = [df |-> df]
    /\ pc' = IF call = 1 THEN "fitted1" ELSE "fitted2"
    /\ UNCHANGED <<cleanVars, geneVars, mainVars, twin, config, data_fitting_config, df,
                   df_is_aggregated, columns_to_check, ci, option, missing_urs,
                   call, run>>

\* main is started again on the same workbook and the config file as the
\* last run left it
NextRun ==
    /\ pc \in {"fitted2", "crashed"}
    /\ run < MaxRuns
    /\ run' = run + 1
    /\ pc' = "start"
    /\ aggregated' = <<>>
    /\ data_fitting_config' = <<>>
    /\ df' = <<>>
    /\ df_is_aggregated' = FALSE
    /\ columns_to_check' = <<>>
    /\ ci' = 0
    /\ option' = NoOption
    /\ missing_urs' = <<>>
    /\ call' = 0
    /\ returned' = <<>>
    /\ header_metadata' = <<>>
    /\ metadata_lookup' = <<>>
    /\ UNCHANGED <<twin, sheet, percentage_columns, geneVars, headers,
                   columns_to_derive, config>>

FitNext ==
    \/ Aggregate
    \/ Compose
    \/ CallDataFitting
    \/ SkipAbsentColumn
    \/ NoMissingData
    \/ ResolvePersisted
    \/ AskStrategy
    \/ PromptInvalid
    \/ PromptValid
    \/ ReturnFromFitting
    \/ NextRun

SpecFit == FitInit /\ [][FitNext]_vars

\* a call of data_fitting takes its steps, and the person at the prompt
\* eventually types an allowed option
FairSpecFit ==
    /\ SpecFit
    /\ WF_vars(SkipAbsentColumn) /\ WF_vars(NoMissingData)
    /\ WF_vars(ResolvePersisted) /\ WF_vars(AskStrategy)
    /\ WF_vars(PromptValid) /\ WF_vars(ReturnFromFitting)

(***************************************************************************)
(* Properties of data_fitting.                                             *)
(***************************************************************************)
InFitting == pc \in {"fit_loop", "prompt"}

\* the prompt is shown only for a column without persisted strategy
C7_PromptOnlyWithoutStrategy ==
    pc = "prompt" => config.data_fitting[CurrentColumn] = NoOption

\* a strategy obtained from the prompt is in the config file once the prompt
\* is left
C7_PromptedStrategyWritten ==
    (pc = "prompt" /\ pc' # "prompt") =>
        config'.data_fitting[CurrentColumn] = option'

\* a persisted strategy stays as it is, and a resolution of its column
\* applies it
C7_PersistedStrategyKept ==
    \A c \in FittingColumns :
        config.data_fitting[c] # NoOption =>
            /\ config'.data_fitting[c] = config.data_fitting[c]
            /\ (pc = "fit_loop" /\ ci' = ci + 1 /\ CurrentColumn = c
                  /\ missing_urs' # <<>>)
                  => option' = config.data_fitting[c]

\* C7: a strategy is asked for only when none is persisted for the column;
\* the strategy obtained is written to the config file; a persisted
\* strategy is never asked for again and is the one applied, in this run
\* and in later runs, whatever the config file held at first.
C7_StrategyPersistedOnce ==
    [][/\ C7_PromptOnlyWithoutStrategy
       /\ C7_PromptedStrategyWritten
       /\ C7_PersistedStrategyKept]_vars

\* C8: every call of data_fitting returns (each listed column is passed),
\* given that the prompt eventually gets an allowed option.
C8_EveryCallReturns ==
    InFitting ~> (pc \in {"fitted1", "fitted2"})

\* the rows of the cleansed table, as main holds them before the first call
CleansedTable == compose_genes(groupby_agg(prepared(sheet, percentage_columns, headers)))

\* C10: after the call that applied drop to "Dx OS", the table main goes on
\* with has no row with a null "Dx OS" and has every row with a value in
\* it, unchanged.
C10_DropReachesNextStages ==
    (pc = "fitted1" /\ option = drop) =>
        /\ \A i \in 1..Len(aggregated) : ~isna(aggregated[i]["Dx OS"])
        /\ \A i \in 1..Len(CleansedTable) :
              ~isna(CleansedTable[i]["Dx OS"]) =>
                  \E j \in 1..Len(aggregated) : aggregated[j] = CleansedTable[i]

(***************************************************************************)
(* Two executions of data_fitting side by side: the same table, the same   *)
(* columns_to_check, strategies that differ for one column only.  Every    *)
(* checked column of the table has a strategy in the config, so neither    *)
(* execution prompts.                                                      *)
(***************************************************************************)
\* lines 293-367 for one column: the table and the identifiers reported
\* (the last report stays when nothing is reported)
check_column(tbl, strategies, col, reported, columns) ==
    IF col \notin columns THEN [df |-> tbl, missing_urs |-> reported]
    ELSE IF missing_of(tbl, col) = <<>> THEN [df |-> tbl, missing_urs |-> <<>>]
    ELSE [df |-> apply_option(tbl, col, strategies[col]),
          missing_urs |-> missing_of(tbl, col)]

PairInit ==
    /\ pc = "pair_loop"
    /\ \E n \in 1..MaxPatients : \E f \in [1..n -> BOOLEAN \X BOOLEAN] :
          sheet = [i \in 1..n |-> FitRow(i, TRUE, f[i][1], f[i][2])]
    /\ percentage_columns = <<>>
    /\ MainStart(<<>>)
    /\ aggregated = compose_genes(groupby_agg(prepared(sheet, percentage_columns, headers)))
    /\ row = <<>>
    /\ gene_records = <<>>
    /\ \E fe, tf \in allowed_options :
          data_fitting_config =
              [c \in FittingColumns |->
                  IF c = "Ferritin" THEN fe ELSE IF c = "TF Sats" THEN tf
                  ELSE NoOption]
    /\ config = ConfigFile(TRUE, data_fitting_config)
    /\ df = aggregated
    /\ df_is_aggregated = TRUE
    /\ columns_to_check = <<"Ferritin", "TF Sats", "BM Iron stores">>
    /\ ci = 1
    /\ option = NoOption
    /\ missing_urs = <<>>
    /\ call = 2
    /\ run = 1
    /\ returned = <<>>
    /\ \E a \in {"Ferritin", "TF Sats"} :
       \E other \in allowed_options \ {data_fitting_config[a]} :
          twin = [df |-> aggregated,
                  data_fitting_config |->
                      [data_fitting_config EXCEPT ![a] = other],
                  missing_urs |-> <<>>,
                  differs |-> a]

\* both executions check the column at ci
PairCheckColumn ==
    /\ pc = "pair_loop" /\ ci <= Len(columns_to_check)
    /\ LET here  == check_column(df, data_fitting_config, CurrentColumn,
                                 missing_urs, DOMAIN aggregated[1])
           there == check_column(twin.df, twin.data_fitting_config,
                                 CurrentColumn, twin.missing_urs,
                                 DOMAIN aggregated[1])
       IN  /\ df' = here.df
           /\ missing_urs' = here.missing_urs
           /\ twin' = [twin EXCEPT !.df = there.df,
                                   !.missing_urs = there.missing_urs]
    /\ ci' = ci + 1
    /\ UNCHANGED <<pc, cleanVars, geneVars, mainVars, config, data_fitting_config,
                   df_is_aggregated, columns_to_check, option, call, run, returned>>

\* both executions return
PairReturn ==
    /\ pc = "pair_loop" /\ ci > Len(columns_to_check)
    /\ pc' = "pair_done"
    /\ UNCHANGED <<cleanVars, geneVars, mainVars, fitVars, twin>>

PairNext == PairCheckColumn \/ PairReturn

SpecPair == PairInit /\ [][PairNext]_vars

\* C9: in two executions that differ only in the strategy of column A,
\* every other checked column B gets the same list of missing identifiers
\* reported, and ends with the same values in the rows both results have.
C9_ColumnsIndependent ==
    /\ (pc = "pair_loop" /\ ci > 1
          /\ columns_to_check[ci - 1] \in DOMAIN aggregated[1]
          /\ columns_to_check[ci - 1] # twin.differs)
          => missing_urs = twin.missing_urs
    /\ pc = "pair_done" =>
          \A b \in {"Ferritin", "TF Sats"} \ {twin.differs} :
          \A i \in 1..Len(df) : \A j \in 1..Len(twin.df) :
              df[i]["UR"] = twin.df[j]["UR"] => df[i][b] = twin.df[j][b]

(***************************************************************************)
(* One call of data_fitting on a table whose checked column holds numbers  *)
(* or texts and whose config may hold a calc object: the second call of    *)
(* main, taken up after line 290.                                          *)
(***************************************************************************)
MaxFitRows == 3     \* rows of the table handed to this call

x_text == <<"x">>
y_text == <<"y">>

\* the cells a Ferritin column of numbers, and one of texts, may hold
NumberCells == <<NULL, Num(6 * One), Num(12 * One)>>
TextCells   == <<NULL, Str(x_text), Str(y_text)>>

\* the date columns a calc object of the config refers to
first_date  == "Dx date"
second_date == "Last FU"

iso_0131   == <<"1", "9", "7", "0", "-", "0", "1", "-", "3", "1">>
iso_0302   == <<"1", "9", "7", "0", "-", "0", "3", "-", "0", "2">>
iso_0230   == <<"1", "9", "7", "0", "-", "0", "2", "-", "3", "0">>
not_a_date == <<"n", "/", "a">>
iso_20200301 == <<"2", "0", "2", "0", "-", "0", "3", "-", "0", "1">>
iso_20200101 == <<"2", "0", "2", "0", "-", "0", "1", "-", "0", "1">>

\* the two date cells of row i: dates, dates written as text, a day that
\* does not exist, a text that is no date, blanks, 2020-03-01 and 2020-01-01
DateCases(i) ==
    << <<Date(45 * i), Str(iso_0131)>>,
       <<Str(iso_0302), Date(45 * i)>>,
       <<NULL, Date(45 * i)>>,
       <<Date(45 * i), Str(not_a_date)>>,
       <<Str(iso_0230), NULL>>,
       <<Date(45 * i), Date(45 * i)>>,
       <<Str(iso_20200301), Str(iso_20200101)>> >>

ResolveRow(i, fe, dates) ==
    [c \in {"UR", "Ferritin", "TF Sats", first_date, second_date} |->
        IF c = "UR" THEN Num(i * One)
        ELSE IF c = "Ferritin" THEN fe
        ELSE IF c = "TF Sats" THEN (IF i = 1 THEN NULL ELSE FitValue(i))
        ELSE IF c = first_date THEN dates[1]
        ELSE dates[2]]

Month_text == <<"M", "o", "n", "t", "h">>
day_text   == <<"d", "a", "y">>

\* the calc objects a config file of the model may hold for "Ferritin"
CalcSpecs ==
    << CalcSpec(first_date, second_date, "-", month),
       CalcSpec(first_date, second_date, "-", Month_text),
       CalcSpec(first_date, second_date, "+", month),
       CalcSpec(first_date, second_date, "-", day_text),
       CalcSpec("UR", second_date, "-", month) >>

TextOptions == <<NoOption, drop, mean, median, mode, zero, calc>>

ResolveStrategies(fe) ==
    [c \in FittingColumns |->
        IF c = "Ferritin" THEN fe ELSE IF c = "TF Sats" THEN zero ELSE NoOption]

ResolveInit ==
    /\ pc = "fit_loop"
    /\ \E n \in 1..MaxFitRows :
          \/ \E cells \in {NumberCells, TextCells} :
             \E f \in [1..n -> 1..3] : \E o \in 1..Len(TextOptions) :
                /\ df = [i \in 1..n |-> ResolveRow(i, cells[f[i]], DateCases(i)[6])]
                /\ data_fitting_config = ResolveStrategies(TextOptions[o])
          \/ \E f \in [1..n -> (1..2) \X (1..7)] : \E o \in 1..Len(CalcSpecs) :
                /\ df = [i \in 1..n |->
                            ResolveRow(i, NumberCells[f[i][1]], DateCases(i)[f[i][2]])]
                /\ data_fitting_config = ResolveStrategies(CalcSpecs[o])
    /\ aggregated = df
    /\ df_is_aggregated = TRUE
    /\ config = ConfigFile(TRUE, data_fitting_config)
    /\ columns_to_check = <<"Ferritin", "TF Sats", "BM Iron stores">>
    /\ ci = 1
    /\ option = NoOption
    /\ missing_urs = <<>>
    /\ call = 2
    /\ run = 1
    /\ returned = <<>>
    /\ MainIdle
    /\ sheet = <<>>
    /\ percentage_columns = <<>>
    /\ row = <<>>
    /\ gene_records = <<>>
    /\ twin = <<>>

ResolveNext ==
    \/ SkipAbsentColumn
    \/ NoMissingData
    \/ ResolvePersisted
    \/ AskStrategy
    \/ PromptInvalid
    \/ PromptValid
    \/ ReturnFromFitting

SpecResolve == ResolveInit /\ [][ResolveNext]_vars

(***************************************************************************)
(* Properties of the fill strategies.                                      *)
(***************************************************************************)
\* the step that applies a strategy to column col of a table in which the
\* column has a null
AppliesTo(col) ==
    /\ InFitting
    /\ ci' = ci + 1
    /\ CurrentColumn = col
    /\ col \in DOMAIN aggregated[1]
    /\ \E i \in 1..Len(df) : isna(df[i][col])

PresentCells(col) == SelectSeq(Column(df, col), LAMBDA c : ~isna(c))

\* v is the arithmetic mean of the numbers in cells
IsMean(v, cells) ==
    /\ \A i \in 1..Len(cells) : cells[i].k = "num"
    /\ v.k = "num"
    /\ v.n * Len(cells) = Sum([i \in 1..Len(cells) |-> cells[i].n])

\* the value of rank r (1 = smallest) among the numbers in cells
Ranked(cells, r) ==
    CHOOSE c \in {cells[i] : i \in 1..Len(cells)} :
        /\ Cardinality({i \in 1..Len(cells) : cells[i].n < c.n}) < r
        /\ Cardinality({i \in 1..Len(cells) : cells[i].n <= c.n}) >= r

\* v is the median of the numbers in cells
IsMedian(v, cells) ==
    /\ \A i \in 1..Len(cells) : cells[i].k = "num"
    /\ v.k = "num"
    /\ 2 * v.n = Ranked(cells, (Len(cells) + 1) \div 2).n
                 + Ranked(cells, (Len(cells) + 2) \div 2).n

Occurrences(c, cells) == Cardinality({i \in 1..Len(cells) : cells[i] = c})

\* v is the least of the most frequent values in cells
IsMode(v, cells) ==
    /\ \E i \in 1..Len(cells) : cells[i] = v
    /\ \A i \in 1..Len(cells) :
          /\ Occurrences(cells[i], cells) <= Occurrences(v, cells)
          /\ Occurrences(cells[i], cells) = Occurrences(v, cells)
                => (cells[i] = v \/ cell_less(v, cells[i]))

IsStatistic(opt, v, cells) ==
    IF opt = zero THEN v = Num(0)
    ELSE IF opt = mean THEN IsMean(v, cells)
    ELSE IF opt = median THEN IsMedian(v, cells)
    ELSE IsMode(v, cells)

\* the fill of column col by strategy opt in this step
FilledWith(col, opt) ==
    /\ Len(df') = Len(df)
    /\ \A i \in 1..Len(df) :
          /\ df'[i]["UR"] = df[i]["UR"]
          /\ ~isna(df'[i][col])
          /\ ~isna(df[i][col]) => df'[i][col] = df[i][col]
          /\ isna(df[i][col]) => IsStatistic(opt, df'[i][col], PresentCells(col))

FillStrategies == {mean, median, mode, zero}

C11_Fill(numeric_only) ==
    \A opt \in FillStrategies :
        (/\ AppliesTo("Ferritin")
         /\ option' = opt
         /\ opt # zero => PresentCells("Ferritin") # <<>>
         /\ (numeric_only /\ opt \in {mean, median})
               => is_numeric_dtype(df, "Ferritin"))
            => FilledWith("Ferritin", opt)

\* C11 as stated: mean, median, mode and zero, applied to a column with a
\* null (and for mean, median, mode a value), replace every null by the
\* statistic of the non-null values (0 for zero), keep every value, keep
\* the rows, and leave no null in the column.
C11_FillReplacesEveryNull == [][C11_Fill(FALSE)]_vars

\* C11 for the columns the strategies apply to: the same, where for mean
\* and median the column is numeric.
C11_FillOfNumericColumn == [][C11_Fill(TRUE)]_vars

\* mean has just filled the nulls of a numeric Ferritin column of three rows
C11_Witness ==
    /\ pc = "fit_loop" /\ ci = 2 /\ option = mean
    /\ Len(df) = 3
    /\ missing_urs = <<Num(2 * One)>>
    /\ df[1]["Ferritin"] = Num(6 * One)
    /\ df[2]["Ferritin"] = Num(9 * One)
    /\ df[3]["Ferritin"] = Num(12 * One)

(***************************************************************************)
(* Properties of the calc strategy.                                        *)
(***************************************************************************)
\* the day number a date cell of the tables stands for, by the calendar:
\* 1970-01-31 is day 30, 1970-03-02 is day 60; none for a blank, for
\* 1970-02-30 and for a text that is no date; a number is read as a count
\* of nanoseconds from 1970-01-01, and the numbers of the tables stay
\* within day 0
KnownDays(c) ==
    IF c.k = "date" THEN {c.n}
    ELSE IF c.k = "num" THEN {0}
    ELSE IF c = Str(iso_0131) THEN {30}
    ELSE IF c = Str(iso_0302) THEN {60}
    ELSE IF c = Str(iso_20200101) THEN {50 * 365 + 12}
    ELSE IF c = Str(iso_20200301) THEN {50 * 365 + 12 + 31 + 29}
    ELSE {}

\* the step applies a calc object with operator "-" and unit month
AppliesMonthDifference ==
    /\ AppliesTo("Ferritin")
    /\ is_dict(option')
    /\ option'[4] = "-"
    /\ option'[5] \in {month, Month_text}

\* C12: calc with "-" and "month" writes (first_input - second_input) in
\* days over 30 into every row whose target is null and whose two dates
\* are read as dates; every other row keeps its target, the rows stay, and
\* a date that cannot be read raises nothing.  The quotient is held to the
\* precision of a number cell.
C12_MonthDifference ==
    [][AppliesMonthDifference =>
          /\ pc' = "fit_loop"
          /\ Len(df') = Len(df)
          /\ \A i \in 1..Len(df) :
                LET d1 == KnownDays(df[i][option'[2]])
                    d2 == KnownDays(df[i][option'[3]])
                IN  /\ "UR" \notin {option'[2], option'[3]}
                           => df'[i]["UR"] = df[i]["UR"]
                    /\ IF isna(df[i]["Ferritin"]) /\ d1 # {} /\ d2 # {}
                       THEN \E a \in d1 : \E b \in d2 :
                               /\ df'[i]["Ferritin"].k = "num"
                               /\ df'[i]["Ferritin"].n * 30 <= (a - b) * One
                               /\ (a - b) * One < (df'[i]["Ferritin"].n + 1) * 30
                       ELSE df'[i]["Ferritin"] = df[i]["Ferritin"]]_vars

\* row 1 (day 45 less 1970-01-31: 15 days) was computed to half a month,
\* row 2 had a value and kept it, row 3 has a text that is no date and
\* stays null
C12_Witness ==
    /\ pc = "fit_loop" /\ ci = 2 /\ is_dict(option)
    /\ Len(df) = 3
    /\ missing_urs = <<Num(One), Num(3 * One)>>
    /\ df[1]["Ferritin"] = Num(One \div 2)
    /\ df[2]["Ferritin"] = Num(6 * One)
    /\ df[2][second_date] = Date(30)
    /\ isna(df[3]["Ferritin"]) /\ isna(df[3][second_date])

(***************************************************************************)
(* Properties of the skipped strategies.                                   *)
(***************************************************************************)
\* the strategy opt cannot be applied to the Ferritin column of df: a calc
\* object with another operator or unit, mean or median on a column that
\* is not numeric, mode on a column without a value
Inapplicable(opt) ==
    \/ is_dict(opt) /\ (opt[4] # "-" \/ opt[5] \notin {month, Month_text})
    \/ /\ opt \in {mean, median}
       /\ \E i \in 1..Len(df) : df[i]["Ferritin"].k = "str"
    \/ opt = mode /\ PresentCells("Ferritin") = <<>>

\* C13: a strategy that cannot be applied leaves the table as it is and
\* raises nothing, and the columns after it are still checked: the loop
\* goes on to the next column, and the call returns with "TF Sats" filled.
C13_SkipLeavesTableAndGoesOn ==
    /\ [][(AppliesTo("Ferritin") /\ Inapplicable(option'))
             => (df' = df /\ aggregated' = aggregated
                   /\ pc' = "fit_loop" /\ ci' = ci + 1)]_vars
    /\ [](pc = "fitted2" =>
             \A i \in 1..Len(df) : ~isna(df[i]["TF Sats"]))

\* a calc object with operator "+" was skipped: the null target and the
\* date text of row 1 are as they were, and the call has returned
C13_Witness ==
    /\ pc = "fitted2"
    /\ is_dict(data_fitting_config["Ferritin"])
    /\ data_fitting_config["Ferritin"][4] = "+"
    /\ isna(df[1]["Ferritin"])
    /\ df[1][first_date] = Date(45)
    /\ df[1][second_date] = Str(iso_0131)
    /\ df[1]["TF Sats"] = Num(0)

(***************************************************************************)
(* Properties of the persisted config.                                     *)
(***************************************************************************)
\* C14: every strategy in the config file is one of the five texts drop,
\* mean, median, mode, zero, or a calc object (a column may have none).
C14_OnlyStrategiesOfTheConfigShape ==
    \A c \in FittingColumns :
        \/ config.data_fitting[c] = NoOption
        \/ config.data_fitting[c] \in {drop, mean, median, mode, zero}
        \/ is_dict(config.data_fitting[c])

(***************************************************************************)
(* Properties of the report of missing identifiers.                        *)
(***************************************************************************)
\* the rows of df whose cell in col is null, in table order
NullRows(col) == SortedSeq({i \in 1..Len(df) : isna(df[i][col])})

\* the step in which column col is checked and found to have a null
Reports(col) ==
    /\ pc = "fit_loop" /\ ci <= Len(columns_to_check)
    /\ CurrentColumn = col
    /\ col \in DOMAIN aggregated[1]
    /\ NullRows(col) # <<>>
    /\ (ci' = ci + 1 \/ pc' = "prompt")

\* the list reported for a column with a null is the UR of its null rows,
\* in table order
C15_ReportedList ==
    \A col \in FittingColumns :
        Reports(col) =>
            /\ Len(missing_urs') = Len(NullRows(col))
            /\ \A k \in 1..Len(NullRows(col)) :
                  missing_urs'[k] = df[NullRows(col)[k]]["UR"]

\* the list reported last is part of what the call returns
C15_ListReturned ==
    (pc \in {"fitted1", "fitted2"} /\ missing_urs # <<>>) =>
        /\ "missing_urs" \in DOMAIN returned
        /\ returned.missing_urs = missing_urs

\* C15: for a checked column with a null the reported list is the UR of
\* the rows that are null in the column when it is checked, in table
\* order, and the call gives the list back as a result.
C15_MissingIdentifiersAreOutput ==
    [][C15_ReportedList]_vars /\ []C15_ListReturned

(***************************************************************************)
(* Properties of data_derive.                                              *)
(***************************************************************************)
Derived == pc \in {"derived", "mapped"}

\* the number v lies in the interval [floor, ceiling) of the rule
InInterval(v, rule) ==
    /\ rule.has_floor => v >= rule.floor
    /\ rule.has_ceiling => v < rule.ceiling

\* the rules of a mapping whose interval holds the cell, by position
Hits(cell, map) ==
    IF isna(cell) THEN {}
    ELSE {j \in 1..Len(map) : InInterval(cell.n, map[j])}

\* C16: a mapping gives every row the code of the first declared rule whose
\* interval [floor, ceiling) holds the source value, and null for a null
\* source or a value in no interval; with [0, 20) -> 1 and [20, inf) -> 2
\* the value 20 gets code 2 and every value from 0 on lies in exactly one
\* of the two intervals.
C16_MappingFirstInterval ==
    Derived =>
        \A k \in 1..Len(columns_to_derive) :
            LET d == columns_to_derive[k]
            IN  (d.method = "mapping" /\ d.base_column \in DOMAIN aggregated[1]) =>
                    \A i \in 1..Len(aggregated) :
                        LET v    == aggregated[i][d.base_column]
                            out  == aggregated[i][d.name]
                            hits == Hits(v, d.map)
                        IN  /\ IF hits = {} THEN isna(out)
                               ELSE out = Num(d.map[Min(hits)].int_value * One)
                            /\ (d = MapAdjacent /\ v = Num(20 * One))
                                  => out = Num(2 * One)
                            /\ (d = MapAdjacent /\ ~isna(v) /\ v.n >= 0)
                                  => Cardinality(hits) = 1

\* the value 20 was given code 2 and the value just below 20 code 1
C16_Witness ==
    /\ pc = "derived"
    /\ columns_to_derive = <<MapAdjacent>>
    /\ Len(aggregated) = 2
    /\ aggregated[1]["Ferritin"] = Num(20 * One)
    /\ aggregated[1]["Ferritin Class"] = Num(2 * One)
    /\ aggregated[2]["Ferritin"] = Num(20 * One - 1)
    /\ aggregated[2]["Ferritin Class"] = Num(One)

\* a clause is satisfied by a row: every column of its "if" is above
\* greater_than where given and below less_than where given
Satisfied(r, clause) ==
    \A q \in 1..Len(clause.if) :
        LET col  == clause.if[q][1]
            crit == clause.if[q][2]
        IN  /\ crit.has_gt => (~isna(r[col]) /\ r[col].n > crit.greater_than)
            /\ crit.has_lt => (~isna(r[col]) /\ r[col].n < crit.less_than)

\* C17: a conditional gives every row the "then" value of the first
\* declared clause it satisfies, both bounds of a column counting where
\* both are given, and the default value when it satisfies none.
C17_ConditionalFirstSatisfied ==
    Derived =>
        \A k \in 1..Len(columns_to_derive) :
            LET d == columns_to_derive[k]
            IN  d.method = "conditional" =>
                    \A i \in 1..Len(aggregated) :
                        LET met == {j \in 1..Len(d.conditions) :
                                       Satisfied(aggregated[i], d.conditions[j])}
                            out == aggregated[i][d.name]
                        IN  IF met = {} THEN out = d.default_value
                            ELSE out = Num(d.conditions[Min(met)].then.value * One)

\* the columns a derivation entry reads
ColumnsRead(d) ==
    IF d.method = "conditional"
    THEN UNION {{d.conditions[j].if[q][1] : q \in 1..Len(d.conditions[j].if)} :
                   j \in 1..Len(d.conditions)}
    ELSE {d.base_column}

\* the columns of the table data_derive is handed
SourceColumns == {"UR", "Ferritin", "TF Sats", "Gene"}

\* C18: an entry that reads a column the table does not have is skipped and
\* adds no column, nothing is raised, and every other entry is processed:
\* its column is in the table data_derive returns.
C18_AbsentColumnSkipsOneRule ==
    (pc \in {"derived", "mapped", "crashed"}) =>
        /\ pc # "crashed"
        /\ \A k \in 1..Len(columns_to_derive) :
              LET d == columns_to_derive[k]
              IN  (d.name \in DOMAIN aggregated[1])
                     <=> (ColumnsRead(d) \subseteq SourceColumns)


(***************************************************************************)
(* The label dictionary across main (main.py 15-43).                       *)
(***************************************************************************)
\* one run of main from the sheet to the label lookup: data_cleansing, the
\* two calls of data_fitting, data_derive, generate_metadata_mapping
MainNext ==
    \/ Aggregate
    \/ Compose
    \/ CallDataFitting
    \/ SkipAbsentColumn
    \/ NoMissingData
    \/ ResolvePersisted
    \/ AskStrategy
    \/ PromptInvalid
    \/ PromptValid
    \/ ReturnFromFitting
    \/ DataDerive
    \/ GenerateMetadataMapping

SpecMain == FitInit /\ [][MainNext]_vars

\* the entry of column c is kept by a step
KeepsEntry(c) ==
    /\ c \in DOMAIN header_metadata'
    /\ header_metadata'[c] = header_metadata[c]

\* C19: within one run of main (data_cleansing, then data_derive, then
\* generate_metadata_mapping) no step takes an entry out of the label
\* dictionary: every column description of the header row that
\* data_cleansing returned is still there, under the same column name and
\* with the same text, in the dictionary main holds after data_derive has
\* added its code-to-label entries and hands to generate_metadata_mapping.
C19_DictionaryNeverLosesAnEntry ==
    [][pc' # "start" => \A c \in DOMAIN header_metadata : KeepsEntry(c)]_vars


(***************************************************************************)
(* standardize_numeric_columns on one column (data.py 42-72, called at     *)
(* data_cleansing line 148).                                               *)
(***************************************************************************)
MaxStdRows == 3

ninety_percent == <<"9", "0", "%">>
padded_45      == <<" ", "4", "5", " ">>
abc_text       == <<"a", "b", "c">>

\* the cells of the column: 90, 45, 0.5, 1, "90%", " 45 ", "abc", blank
StdCells ==
    {Num(90 * One), Num(45 * One), Num(One \div 2), Num(One),
     Str(ninety_percent), Str(padded_45), Str(abc_text), NULL}

StdRow(i, c) ==
    [x \in {"UR", "Ferritin"} |-> IF x = "UR" THEN Num(i * One) ELSE c]

\* the second argument: the dict of detect_percentage_format (no entry or
\* True) and, for a caller of its own, an entry that says False (line 55)
StdFlags == PercentageFlags \cup {[c \in {"Ferritin"} |-> FALSE]}

StdInit ==
    /\ pc = "start"
    /\ \E n \in 1..MaxStdRows : \E f \in [1..n -> StdCells] :
          sheet = [i \in 1..n |-> StdRow(i, f[i])]
    /\ percentage_columns \in StdFlags
    /\ aggregated = <<>>
    /\ row = <<>>
    /\ gene_records = <<>>
    /\ config = DefaultConfig
    /\ MainIdle
    /\ FitIdle

\* data_cleansing line 148: df = standardize_numeric_columns(df, ...)
StandardizeNumericColumns ==
    /\ pc = "start"
    /\ df' = standardize_numeric_columns(sheet, percentage_columns)
    /\ pc' = "standardized"
    /\ UNCHANGED <<sheet, percentage_columns, aggregated, geneVars, mainVars,
                   config, data_fitting_config, df_is_aggregated,
                   columns_to_check, ci, option, missing_urs, call, run,
                   returned, twin>>

StdNext == StandardizeNumericColumns

SpecStandardize == StdInit /\ [][StdNext]_vars

\* the number a cell of the column stands for, NULL if it stands for none
Reading(c) ==
    IF c.k = "num" THEN c
    ELSE IF c = Str(ninety_percent) THEN Num(90 * One)
    ELSE IF c = Str(padded_45) THEN Num(45 * One)
    ELSE NULL

Flagged ==
    "Ferritin" \in DOMAIN percentage_columns /\ percentage_columns["Ferritin"]

ReadingOf(i) == Reading(sheet[i]["Ferritin"])

SomeValueAboveOne ==
    \E i \in 1..Len(sheet) : ReadingOf(i).k = "num" /\ ReadingOf(i).n > One

\* C20: after standardize_numeric_columns on a column flagged as
\* percentage, if some value of the column is greater than 1 every value is
\* the raw value divided by 100 (90 and 45 become 0.9 and 0.45), otherwise
\* every value is the raw number; in both cases the call returns and a text
\* that is no number has become null.
C20_FlaggedColumnDividedAsAWhole ==
    (pc = "standardized" /\ Flagged) =>
        /\ Len(df) = Len(sheet)
        /\ \A i \in 1..Len(sheet) :
              LET out == df[i]["Ferritin"]
              IN  IF ReadingOf(i).k # "num" THEN out = NULL
                  ELSE IF SomeValueAboveOne
                       THEN out.k = "num" /\ out.n * 100 = ReadingOf(i).n
                       ELSE out = ReadingOf(i)

\* raw [90, 45] flagged as percentage has become [0.9, 0.45]
C20_Witness ==
    /\ pc = "standardized"
    /\ Flagged
    /\ Len(sheet) = 2
    /\ sheet[1]["Ferritin"] = Num(90 * One)
    /\ sheet[2]["Ferritin"] = Num(45 * One)
    /\ df[1]["Ferritin"] = Num(9 * (One \div 10))
    /\ df[2]["Ferritin"] = Num(45 * (One \div 100))


SomeValueBelowOne ==
    \E i \in 1..Len(sheet) : ReadingOf(i).k = "num" /\ ReadingOf(i).n < One

\* C21: after standardize_numeric_columns on a column that is not flagged
\* as percentage and holds a value less than 1, the values below 1 are the
\* raw values times 100 and the other values are the raw values (0.5 and 45
\* become 50 and 45).
C21_UnflaggedSmallValuesRescaled ==
    (pc = "standardized" /\ ~Flagged /\ SomeValueBelowOne) =>
        \A i \in 1..Len(sheet) :
            ReadingOf(i).k = "num" =>
                df[i]["Ferritin"] =
                    IF ReadingOf(i).n < One THEN Num(ReadingOf(i).n * 100)
                    ELSE ReadingOf(i)


(***************************************************************************)
(* process_headers on lists of header texts (data.py 74-87).               *)
(***************************************************************************)
MaxHeaderLen == 4   \* characters of the first header of a list
MaxHeaders == 2     \* headers of a list

\* a letter, a blank, the marks '*' and '?', the separator '#'
HeaderChars == {"a", " ", "*", "?", "#"}

HeaderTexts == UNION {[1..k -> HeaderChars] : k \in 0..MaxHeaderLen}

\* "Ferritin # serum ferritin level?"
ferritin_question ==
    <<"F", "e", "r", "r", "i", "t", "i", "n", " ", "#", " ",
      "s", "e", "r", "u", "m", " ", "f", "e", "r", "r", "i", "t", "i", "n", " ",
      "l", "e", "v", "e", "l", "?">>

Ferritin_text == ColumnText["Ferritin"]

serum_ferritin_level == SubSeq(ferritin_question, 12, 31)

\* the headers that follow the first one: "*a # b" and "b"
FollowingHeaders == {<<"*", "a", " ", "#", " ", "b">>, <<"b">>}

HeadersInit ==
    /\ pc = "start"
    /\ \E first \in HeaderTexts \cup {ferritin_question} :
       \E n \in 0..(MaxHeaders - 1) : \E more \in [1..n -> FollowingHeaders] :
          headers = <<first>> \o more
    /\ returned = <<>>
    /\ header_metadata = <<>>
    /\ columns_to_derive = <<>>
    /\ metadata_lookup = <<>>
    /\ sheet = <<>>
    /\ percentage_columns = <<>>
    /\ aggregated = <<>>
    /\ row = <<>>
    /\ gene_records = <<>>
    /\ config = DefaultConfig
    /\ data_fitting_config = <<>>
    /\ df = <<>>
    /\ df_is_aggregated = FALSE
    /\ columns_to_check = <<>>
    /\ ci = 0
    /\ option = NoOption
    /\ missing_urs = <<>>
    /\ call = 0
    /\ run = 1
    /\ twin = <<>>

\* new_columns, header_metadata = process_headers(raw_headers)
ProcessHeaders ==
    /\ pc = "start"
    /\ returned' = process_headers(headers)
    /\ pc' = "parsed"
    /\ UNCHANGED <<cleanVars, geneVars, mainVars, twin, config,
                   data_fitting_config, df, df_is_aggregated, columns_to_check,
                   ci, option, missing_urs, call, run>>

\* process_headers called on the list it returned
ProcessHeadersAgain ==
    /\ pc = "parsed"
    /\ headers' = returned.header_names
    /\ returned' = process_headers(returned.header_names)
    /\ pc' = "parsed_again"
    /\ UNCHANGED <<cleanVars, geneVars, header_metadata, columns_to_derive,
                   metadata_lookup, twin, config, data_fitting_config, df,
                   df_is_aggregated, columns_to_check, ci, option, missing_urs,
                   call, run>>

HeadersNext == ProcessHeaders \/ ProcessHeadersAgain

SpecHeaders == HeadersInit /\ [][HeadersNext]_vars


(***************************************************************************)
(* Properties of process_headers.                                          *)
(***************************************************************************)
Hashes(h) == {i \in 1..Len(h) : h[i] = "#"}

\* the parts of a header left and right of its first '#'
LeftPart(h)  == SubSeq(h, 1, Min(Hashes(h)) - 1)
RightPart(h) == SubSeq(h, Min(Hashes(h)) + 1, Len(h))

\* s without the whitespace around it
Trimmed(s) ==
    LET inked == {i \in 1..Len(s) : s[i] \notin Whitespace}
    IN  IF inked = {} THEN <<>> ELSE SubSeq(s, Min(inked), Max(inked))

\* s without its leading marks ch / its trailing marks ch (one or more)
LeadingRemoved(s, ch) ==
    LET other == {i \in 1..Len(s) : s[i] # ch}
    IN  IF other = {} THEN <<>> ELSE SubSeq(s, Min(other), Len(s))
TrailingRemoved(s, ch) ==
    LET other == {i \in 1..Len(s) : s[i] # ch}
    IN  IF other = {} THEN <<>> ELSE SubSeq(s, 1, Max(other))

Parsed == pc = "parsed"

\* the list has the length of the input, and only headers with '#' have
\* put a name into the descriptions
SameShape ==
    /\ Len(returned.header_names) = Len(headers)
    /\ DOMAIN returned.descriptions =
           {returned.header_names[i] :
               i \in {j \in 1..Len(headers) : Hashes(headers[j]) # {}}}

InputKept == [][pc = "start" /\ pc' = "parsed" => headers' = headers]_vars

\* C22 as stated: after process_headers, a header with '#' is cut at its
\* first '#'; its name is the left part without the whitespace around it,
\* without a leading '*' and without a trailing '?', and the dict holds
\* under that name the right part (without the whitespace around it) of
\* this very header; a header without '#' gives the header without the
\* leading '*' and stores nothing; the list has the length and order of the
\* input, which is not modified.
C22_EveryDescriptionStored ==
    /\ InputKept
    /\ [](Parsed =>
           /\ SameShape
           /\ \A i \in 1..Len(headers) :
                 LET h == headers[i]
                     name == returned.header_names[i]
                 IN  IF Hashes(h) # {}
                     THEN /\ name = TrailingRemoved(
                                       LeadingRemoved(Trimmed(LeftPart(h)), "*"), "?")
                          /\ returned.descriptions[name] = Trimmed(RightPart(h))
                     ELSE name = LeadingRemoved(Trimmed(h), "*"))

\* the last header with '#' that has the name of header i
LastNamed(i) ==
    Max({j \in 1..Len(headers) :
            /\ Hashes(headers[j]) # {}
            /\ returned.header_names[j] = returned.header_names[i]})

\* C22, amended: as stated, but the dict holds under a name the description
\* of the last header with '#' that has this name.
C22_LastDescriptionStored ==
    /\ InputKept
    /\ [](Parsed =>
           /\ SameShape
           /\ \A i \in 1..Len(headers) :
                 LET h == headers[i]
                     name == returned.header_names[i]
                 IN  IF Hashes(h) # {}
                     THEN /\ name = TrailingRemoved(
                                       LeadingRemoved(Trimmed(LeftPart(h)), "*"), "?")
                          /\ returned.descriptions[name] =
                                 Trimmed(RightPart(headers[LastNamed(i)]))
                     ELSE name = LeadingRemoved(Trimmed(h), "*"))

\* a marked header with two '#' was parsed in a list of two: its description
\* holds the second '#', the header after it has no '#'
C22_Witness ==
    /\ Parsed
    /\ Len(headers) = 2
    /\ Cardinality(Hashes(headers[1])) = 2
    /\ headers[1][1] = "*"
    /\ returned.header_names = <<<<"a">>, <<"b">>>>
    /\ Hashes(returned.descriptions[<<"a">>]) # {}


\* C23: process_headers on the header "Ferritin # serum ferritin level?"
\* gives the name "Ferritin" and stores under it the description
\* "serum ferritin level", without the '?' at its end.
C23_FerritinExample ==
    (Parsed /\ headers = <<ferritin_question>>) =>
        /\ returned.header_names = <<Ferritin_text>>
        /\ DOMAIN returned.descriptions = {Ferritin_text}
        /\ returned.descriptions[Ferritin_text] = serum_ferritin_level

\* C24: process_headers called on the list it returned gives this list
\* again and no description.
C24_ParsingNamesAgainChangesNothing ==
    [][(pc = "parsed" /\ pc' = "parsed_again") =>
          /\ returned'.header_names = returned.header_names
          /\ DOMAIN returned'.descriptions = {}]_vars


(***************************************************************************)
(* The worked example of the calc strategy (data.py 330-336).              *)
(***************************************************************************)
\* row i holds 2020-03-01 as first input, 2020-01-01 as second input and
\* no value in the target column
ExampleRow(i) ==
    /\ df[i][first_date] = Str(iso_20200301)
    /\ df[i][second_date] = Str(iso_20200101)
    /\ isna(df[i]["Ferritin"])

\* a step that applies the month difference writes v into every example row
ExampleGives(v) ==
    AppliesMonthDifference /\ option'[2] = first_date
                           /\ option'[3] = second_date =>
        \A i \in 1..Len(df) : ExampleRow(i) => df'[i]["Ferritin"] = v

\* C25 as stated: with first_input = 2020-03-01, second_input = 2020-01-01
\* and a null target the difference is 59 days and the value written is
\* 59/30, about 1.9667.
C25_FiftyNineDays == [][ExampleGives(Num((59 * One) \div 30))]_vars

\* C25, amended: the difference is 60 days (January has 31 days, February
\* 2020 has 29) and the value written is 60/30 = 2.
C25_SixtyDays == [][ExampleGives(Num(2 * One))]_vars

\* the example was calculated in the first row
C25_Witness ==
    /\ pc = "fit_loop" /\ ci = 2 /\ is_dict(option)
    /\ missing_urs # <<>> /\ missing_urs[1] = Num(One)
    /\ df[1][first_date].k = "date"
    /\ df[1][first_date].n - df[1][second_date].n = 60
    /\ df[1][second_date] = Date(50 * 365 + 12)
    /\ df[1]["Ferritin"] = Num(2 * One)


(***************************************************************************)
(* The order of the stages in main (main.py 13-21).                        *)
(***************************************************************************)
\* the step enters data_fitting
EntersDataFitting == pc \notin {"fit_loop", "prompt"} /\ pc' = "fit_loop"

\* the step is a call of data_derive that returns
DataDeriveReturns == pc # "derived" /\ pc' = "derived"

\* every column of the derivation rules is in every row of tbl
HoldsDerivedColumns(tbl) ==
    \A k \in 1..Len(columns_to_derive) : \A i \in 1..Len(tbl) :
        columns_to_derive[k].name \in DOMAIN tbl[i]

\* C26: main runs data_cleansing, then data_derive, then data_fitting:
\* data_fitting is entered on a table that holds the derived columns, and
\* data_derive is called before any call of data_fitting.
C26_DeriveBeforeResolve ==
    [][/\ EntersDataFitting => HoldsDerivedColumns(df')
       /\ DataDeriveReturns => call = 0]_vars

(***************************************************************************)
(* Columns data_fitting has nothing to do for (data.py 292-299, 369-370).  *)
(***************************************************************************)
\* data_fitting is at a listed column that is not in the table or holds no
\* null (the columns of df are those of the caller's table, also when df
\* has no row left)
AtColumnWithoutNull ==
    /\ pc = "fit_loop" /\ ci <= Len(columns_to_check)
    /\ \/ CurrentColumn \notin DOMAIN aggregated[1]
       \/ \A i \in 1..Len(df) : ~isna(df[i][CurrentColumn])

\* C27: at a listed column that holds no null, or is not in the table,
\* data_fitting goes on to the next column: it looks up and asks for no
\* strategy, writes neither the config file nor its strategies, and leaves
\* its table and the caller's as they are, whatever strategy is persisted
\* for the column.
C27_NoActionWithoutNull ==
    [][AtColumnWithoutNull =>
          /\ pc' = "fit_loop" /\ ci' = ci + 1
          /\ option' = option
          /\ config' = config /\ data_fitting_config' = data_fitting_config
          /\ df' = df /\ aggregated' = aggregated]_vars

\* the Ferritin column without null was passed with the strategy zero
\* persisted for it, then TF Sats was filled, then the absent column passed
C27_Witness ==
    /\ pc = "fit_loop" /\ ci = 4
    /\ data_fitting_config["Ferritin"] = zero
    /\ \A i \in 1..Len(df) : ~isna(df[i]["Ferritin"])
    /\ "BM Iron stores" \notin DOMAIN aggregated[1]
    /\ option = zero
    /\ Len(df) = 2


(***************************************************************************)
(* The labels of a conditional column (data.py 262-264).                   *)
(***************************************************************************)
\* the labels the dict d holds for key
LabelsFor(d, key) == {d[i][2] : i \in {j \in 1..Len(d) : d[j][1] = key}}

ThenValue(clause) == Num(clause.then.value * One)

\* the conditional entries of the config, once data_derive has returned
ConditionalEntries ==
    IF Derived
    THEN {k \in 1..Len(columns_to_derive) :
             columns_to_derive[k].method = "conditional"}
    ELSE {}

LabelDict(k) == header_metadata[columns_to_derive[k].name].d

\* the entry of the target column is a label dictionary, and it maps the
\* default value to the default label
DefaultLabelled(k) ==
    LET d == columns_to_derive[k]
    IN  /\ d.name \in DOMAIN header_metadata
        /\ header_metadata[d.name].k = "dict"
        /\ LabelsFor(LabelDict(k), d.default_value) = {d.default_label}

\* C28 as stated: the entry of the target column of a conditional maps the
\* "then" value of every clause to the label of that clause and the default
\* value to the default label, also when the default value is the value of
\* a clause.
C28_EveryClauseLabelled ==
    \A k \in ConditionalEntries :
        /\ DefaultLabelled(k)
        /\ \A j \in 1..Len(columns_to_derive[k].conditions) :
              LET clause == columns_to_derive[k].conditions[j]
              IN  LabelsFor(LabelDict(k), ThenValue(clause)) = {clause.then.label}

\* C28, amended: the entry maps the default value to the default label, and
\* every other "then" value to the label of the last clause that has this
\* value.
C28_LastClauseLabelled ==
    \A k \in ConditionalEntries :
        /\ DefaultLabelled(k)
        /\ \A j \in 1..Len(columns_to_derive[k].conditions) :
              LET conditions == columns_to_derive[k].conditions
                  last == Max({x \in 1..Len(conditions) :
                                  ThenValue(conditions[x]) = ThenValue(conditions[j])})
              IN  ThenValue(conditions[j]) # columns_to_derive[k].default_value
                     => LabelsFor(LabelDict(k), ThenValue(conditions[j]))
                           = {conditions[last].then.label}

\* the rule whose default and clauses share values was processed: 0 is
\* labelled by the default, 1 by the third clause
C28_Witness ==
    /\ pc = "derived"
    /\ columns_to_derive = <<CondSharedValues>>
    /\ header_metadata["Serum Iron Class"].d =
           << <<Num(0), "other">>, <<Num(One), "unsaturated">> >>
    /\ Len(aggregated) = 2


(***************************************************************************)
(* The cells a calc strategy leaves alone (data.py 322-337).               *)
(***************************************************************************)
\* the step applies a calc object to the Ferritin column
AppliesCalc == AppliesTo("Ferritin") /\ is_dict(option')

\* cell b holds the value of cell a: the same cell, or the date that the
\* text in a writes
SameValue(a, b) == a = b \/ (b.k = "date" /\ b.n \in KnownDays(a))

\* C29: a step of data_fitting that applies a calc strategy to the target
\* column changes no cell of another column: the first_input and
\* second_input columns hold in every row the value they held before, also
\* where the cell cannot be read as a date.
C29_CalcChangesTargetOnly ==
    [][AppliesCalc =>
          /\ Len(df') = Len(df)
          /\ \A i \in 1..Len(df) : \A c \in DOMAIN df[i] \ {"Ferritin"} :
                SameValue(df[i][c], df'[i][c])]_vars

(***************************************************************************)
(* One row per patient after aggregation (data.py 268-372).                *)
(***************************************************************************)
\* the UR values of the rows of a table
URs(tbl) == {tbl[i]["UR"] : i \in 1..Len(tbl)}

\* no UR occurs in two rows of the table
OneRowPerUR(tbl) ==
    \A i, j \in 1..Len(tbl) : tbl[i]["UR"] = tbl[j]["UR"] => i = j

\* C30: whatever strategy a step of data_fitting applies, every UR still
\* occurs in at most one row, no UR value is changed and no row is added:
\* the URs of the table after the step are among those before it, and some
\* UR is gone only when the strategy is drop.
C30_PatientsOnlyDropped ==
    [][InFitting =>
          /\ OneRowPerUR(df) => OneRowPerUR(df')
          /\ Len(df') <= Len(df)
          /\ URs(df') \subseteq URs(df)
          /\ URs(df') # URs(df) => option' = drop]_vars

====
